---- MODULE Spec2Model ----
(***************************************************************************)
(* Glyph atlas builder of impeller/typographer/backends/skia               *)
(* (text_render_context_skia.cc): TextRenderContextSkia::CreateGlyphAtlas  *)
(* and the helpers it calls, as a state machine over one GlyphAtlasContext.*)
(***************************************************************************)
EXTENDS Integers, Sequences, FiniteSets, TLC

\* ------------------------------------------------------------------ bounds
\* Number of distinct FontGlyphPairs a frame can draw from.
NumPairs == 3
\* Number of CreateGlyphAtlas calls explored on one context.
MaxCalls == 2
\* On a context used for alpha atlases only, with no collaborator failing:
\* the number of distinct pairs, of pairs in one frame, and of calls.
NumAlphaPairs == 4
MaxAlphaFrame == 2
MaxAlphaCalls == 3

\* ------------------------------------------------------ program constants
kPadding == 2
kMinAtlasSize == 256
kMaxAtlasSize == 4096

AlphaBitmap == "kAlphaBitmap"
ColorBitmap == "kColorBitmap"
SignedDistanceField == "kSignedDistanceField"
AtlasTypes == {AlphaBitmap, ColorBitmap, SignedDistanceField}

\* A null shared_ptr (atlas, packer, bitmap, texture) or an empty optional.
Null == [null |-> TRUE]

Max(a, b) == IF a >= b THEN a ELSE b
Min(a, b) == IF a <= b THEN a ELSE b

\* ------------------------------------------------------------ glyph pairs
\* A FontGlyphPair is one of 1..NumPairs.  Its glyph bounds are in half
\* pixels and its font scale in halves, so that bounds * scale is a number
\* of quarter pixels and ISize::Ceil has something to round.
Pairs == 1..NumPairs

GlyphTable ==
  << [bw |-> 199,  bh |-> 199,  scale |-> 2],   \*   99.5 x   99.5 at 1.0
     [bw |-> 67,   bh |-> 99,   scale |-> 3],   \*   33.5 x   49.5 at 1.5
     [bw |-> 8000, bh |-> 8000, scale |-> 2],   \* 4000   x 4000   at 1.0
     [bw |-> 59,   bh |-> 79,   scale |-> 2],   \*   29.5 x   39.5 at 1.0
     [bw |-> 8190, bh |-> 20,   scale |-> 2] >> \* 4095   x   10   at 1.0

Glyph(p) == GlyphTable[((p - 1) % Len(GlyphTable)) + 1]

CeilDiv(a, b) == (a + b - 1) \div b

\* GlyphSize rounding down instead of up.
GlyphSizeFloor(p) ==
  [width  |-> (Glyph(p).bw * Glyph(p).scale) \div 4,
   height |-> (Glyph(p).bh * Glyph(p).scale) \div 4]

\* ISize::Ceil((pair.glyph.bounds * pair.font.GetMetrics().scale).size)
GlyphSize(p) ==
  [width  |-> CeilDiv(Glyph(p).bw * Glyph(p).scale, 4),
   height |-> CeilDiv(Glyph(p).bh * Glyph(p).scale, 4)]

ISize(w, h) == [width |-> w, height |-> h]
IsEmpty(size) == size.width <= 0 \/ size.height <= 0
MakeXYWH(x, y, w, h) == [x |-> x, y |-> y, w |-> w, h |-> h]

\* The iteration orders of a FontGlyphPair::Set: every sequence of distinct
\* pairs.  A frame is the set of pairs of such a sequence; the sequence is
\* the order in which the hash set hands the pairs out during one call.
OrdersOf(pairs, max_len) ==
  { s \in UNION { [1..n -> pairs] : n \in 0..max_len } :
      \A i, j \in DOMAIN s : i # j => s[i] # s[j] }

Orders == OrdersOf(Pairs, NumPairs)

AlphaOrders == OrdersOf(1..NumAlphaPairs, MaxAlphaFrame)

Range(s) == { s[i] : i \in DOMAIN s }
\* -------------------------------------------------------- rectangle packer
\* GrRectanizer (skyline, bottom-left): `skyline' is the sequence of
\* segments [x, y, w] covering [0, width) left to right; `rects' records the
\* rectangles handed out so far.
GrRectanizerFactory(w, h) ==
  [width |-> w, height |-> h,
   skyline |-> << [x |-> 0, y |-> 0, w |-> w] >>,
   rects |-> {}]

\* rectangleFits: the y at which a width x height rectangle sits when its
\* left edge is at segment i, or -1 if it does not fit there.
RECURSIVE FitsFrom(_, _, _, _, _)
FitsFrom(packer, i, widthLeft, height, y) ==
  IF widthLeft <= 0 THEN y
  ELSE IF Max(y, packer.skyline[i].y) + height > packer.height THEN -1
  ELSE FitsFrom(packer, i + 1, widthLeft - packer.skyline[i].w, height,
                Max(y, packer.skyline[i].y))

RectangleFits(packer, i, width, height) ==
  IF packer.skyline[i].x + width > packer.width THEN -1
  ELSE FitsFrom(packer, i, width, height, packer.skyline[i].y)

\* Segments at or after the new one, cut to what lies right of `right'.
RECURSIVE TrimSkyline(_, _)
TrimSkyline(segs, right) ==
  IF segs = << >> THEN << >>
  ELSE IF segs[1].x + segs[1].w <= right
    THEN TrimSkyline(Tail(segs), right)
  ELSE IF segs[1].x < right
    THEN << [x |-> right, y |-> segs[1].y,
             w |-> segs[1].x + segs[1].w - right] >> \o Tail(segs)
  ELSE segs

\* Adjacent segments of equal height become one.
RECURSIVE MergeSkyline(_)
MergeSkyline(segs) ==
  IF Len(segs) <= 1 THEN segs
  ELSE IF segs[1].y = segs[2].y
    THEN MergeSkyline(<< [x |-> segs[1].x, y |-> segs[1].y,
                          w |-> segs[1].w + segs[2].w] >>
                      \o SubSeq(segs, 3, Len(segs)))
    ELSE << segs[1] >> \o MergeSkyline(Tail(segs))

AddSkylineLevel(skyline, i, x, y, width, height) ==
  MergeSkyline(SubSeq(skyline, 1, i - 1)
               \o << [x |-> x, y |-> y + height, w |-> width] >>
               \o TrimSkyline(SubSeq(skyline, i, Len(skyline)), x + width))

\* The segment addRect picks among those where the rectangle fits (ys[i] is
\* its y there): lowest y first, then the narrowest segment, then the
\* leftmost.
BestIndex(skyline, ys) ==
  CHOOSE i \in DOMAIN ys :
    /\ ys[i] >= 0
    /\ \A j \in DOMAIN ys :
         \/ ys[j] < 0
         \/ ys[i] < ys[j]
         \/ ys[i] = ys[j] /\ skyline[i].w < skyline[j].w
         \/ ys[i] = ys[j] /\ skyline[i].w = skyline[j].w /\ i <= j

PlaceRect(packer, x, y, i, width, height) ==
  [ok |-> TRUE, x |-> x, y |-> y,
   packer |-> [packer EXCEPT
                 !.skyline = AddSkylineLevel(@, i, x, y, width, height),
                 !.rects = @ \cup { MakeXYWH(x, y, width, height) }]]

AddRectAmong(packer, width, height, ys) ==
  IF \A i \in DOMAIN ys : ys[i] < 0
    THEN [ok |-> FALSE, x |-> 0, y |-> 0, packer |-> packer]
    ELSE PlaceRect(packer, packer.skyline[BestIndex(packer.skyline, ys)].x,
                   ys[BestIndex(packer.skyline, ys)],
                   BestIndex(packer.skyline, ys), width, height)

AddRect(packer, width, height) ==
  IF width > packer.width \/ height > packer.height
    THEN [ok |-> FALSE, x |-> 0, y |-> 0, packer |-> packer]
    ELSE AddRectAmong(packer, width, height,
                      [i \in DOMAIN packer.skyline |->
                         RectangleFits(packer, i, width, height)])

\* Allocation::NextPowerOfTwoSize: the smallest power of two >= x.
RECURSIVE PowerOfTwoFrom(_, _)
PowerOfTwoFrom(p, x) == IF p >= x THEN p ELSE PowerOfTwoFrom(2 * p, x)
NextPowerOfTwoSize(x) == PowerOfTwoFrom(1, x)

\* ------------------------------------------------------ packing the pairs
\* Padded without the padding.
PaddedNone(n) == n

\* glyph_size.width + kPadding, glyph_size.height + kPadding (lines 95-96).
Padded(n) == n + kPadding

\* One turn of the loop of PairsFitInAtlasOfSize (lines 89-106) for pair i
\* (1-based), once addRect has answered `r'.  The result is the function's
\* return value, the positions vector and the packer.
RECURSIVE PairsFitLoop(_, _, _, _)
PairsFitPlace(pairs, i, glyph_positions, glyph_size, r) ==
  IF ~r.ok
    THEN [remaining |-> Len(pairs) - (i - 1), positions |-> glyph_positions,
          packer |-> r.packer]
    ELSE PairsFitLoop(pairs, i + 1,
                      Append(glyph_positions,
                             MakeXYWH(r.x, r.y, glyph_size.width,
                                      glyph_size.height)),
                      r.packer)

PairsFitLoop(pairs, i, glyph_positions, rect_packer) ==
  IF i > Len(pairs)
    THEN [remaining |-> 0, positions |-> glyph_positions,
          packer |-> rect_packer]
    ELSE PairsFitPlace(pairs, i, glyph_positions, GlyphSize(pairs[i]),
                       AddRect(rect_packer,
                               Padded(GlyphSize(pairs[i]).width),
                               Padded(GlyphSize(pairs[i]).height)))

PairsFitInAtlasOfSize(pairs, atlas_size, glyph_positions, rect_packer) ==
  IF IsEmpty(atlas_size)
    THEN [remaining |-> 0, positions |-> glyph_positions,
          packer |-> rect_packer]
    ELSE PairsFitLoop(pairs, 1, << >>, rect_packer)

\* The loop of CanAppendToExistingAtlas (lines 127-144): the packer is the
\* context's own and keeps every rectangle it accepted, also when a later
\* one is rejected.
RECURSIVE CanAppendLoop(_, _, _, _)
CanAppendPlace(extra_pairs, i, glyph_positions, glyph_size, r) ==
  IF ~r.ok
    THEN [ok |-> FALSE, positions |-> glyph_positions, packer |-> r.packer]
    ELSE CanAppendLoop(extra_pairs, i + 1,
                       Append(glyph_positions,
                              MakeXYWH(r.x, r.y, glyph_size.width,
                                       glyph_size.height)),
                       r.packer)

CanAppendLoop(extra_pairs, i, glyph_positions, rect_packer) ==
  IF i > Len(extra_pairs)
    THEN [ok |-> TRUE, positions |-> glyph_positions, packer |-> rect_packer]
    ELSE CanAppendPlace(extra_pairs, i, glyph_positions,
                        GlyphSize(extra_pairs[i]),
                        AddRect(rect_packer,
                                Padded(GlyphSize(extra_pairs[i]).width),
                                Padded(GlyphSize(extra_pairs[i]).height)))

CanAppendToExistingAtlas(extra_pairs, glyph_positions, atlas_size, rect_packer) ==
  IF rect_packer = Null \/ IsEmpty(atlas_size)
    THEN [ok |-> FALSE, positions |-> glyph_positions, packer |-> rect_packer]
    ELSE CanAppendLoop(extra_pairs, 1, glyph_positions, rect_packer)

\* NextAtlasSize growing both sides whatever the number of remaining pairs.
NextAtlasSizeBoth(current_size, remaining_pairs, total_pairs) ==
  ISize(NextPowerOfTwoSize(current_size.width + 1),
        NextPowerOfTwoSize(current_size.height + 1))

\* NextAtlasSize comparing with half of pairs.size(), rounded down.
NextAtlasSizeFloor(current_size, remaining_pairs, total_pairs) ==
  IF remaining_pairs < (total_pairs - 1) \div 2
    THEN ISize(Max(current_size.width, current_size.height),
               NextPowerOfTwoSize(
                 Min(current_size.width, current_size.height) + 1))
    ELSE ISize(NextPowerOfTwoSize(current_size.width + 1),
               NextPowerOfTwoSize(current_size.height + 1))

\* The size to try after `remaining_pairs' of the pairs did not fit
\* (lines 178-187).
NextAtlasSize(current_size, remaining_pairs, total_pairs) ==
  IF remaining_pairs < total_pairs \div 2
    THEN ISize(Max(current_size.width, current_size.height),
               NextPowerOfTwoSize(
                 Min(current_size.width, current_size.height) + 1))
    ELSE ISize(NextPowerOfTwoSize(current_size.width + 1),
               NextPowerOfTwoSize(current_size.height + 1))

\* WithinMaxAtlasSize stopping before the largest size.
WithinMaxAtlasSizeStrict(size) ==
  size.width < kMaxAtlasSize /\ size.height < kMaxAtlasSize

\* The condition of the do-while (lines 188-189).
WithinMaxAtlasSize(size) ==
  size.width <= kMaxAtlasSize /\ size.height <= kMaxAtlasSize

\* The do-while of OptimumAtlasSizeForFontGlyphPairs.  In the result,
\* `packer' is the packer handed to UpdateRectPacker, Null when none was;
\* `tried' lists the sizes a packer was built for.
RECURSIVE OptimumSizeLoop(_, _, _, _)
OptimumSizeGrow(pairs, glyph_positions, tried, next_size) ==
  IF WithinMaxAtlasSize(next_size)
    THEN OptimumSizeLoop(pairs, next_size, glyph_positions, tried)
    ELSE [size |-> ISize(0, 0), positions |-> glyph_positions,
          packer |-> Null, tried |-> tried]

OptimumSizeFit(pairs, current_size, tried, fit) ==
  IF fit.remaining = 0
    THEN [size |-> current_size, positions |-> fit.positions,
          packer |-> fit.packer, tried |-> tried]
    ELSE OptimumSizeGrow(pairs, fit.positions, tried,
                         NextAtlasSize(current_size, fit.remaining,
                                       Len(pairs) + 1))

OptimumSizeLoop(pairs, current_size, glyph_positions, tried) ==
  OptimumSizeFit(pairs, current_size, Append(tried, current_size),
                 PairsFitInAtlasOfSize(
                   pairs, current_size, glyph_positions,
                   GrRectanizerFactory(current_size.width,
                                       current_size.height)))

\* ComputeMinimumAlignment without the capability check.
ComputeMinimumAlignmentAlways(capabilities) ==
  [value |-> capabilities.min_bytes_per_row]

\* ComputeMinimumAlignment: std::nullopt is Null.
ComputeMinimumAlignment(capabilities) ==
  IF ~capabilities.shared THEN Null
  ELSE [value |-> capabilities.min_bytes_per_row]

ValueOr(optional, default) ==
  IF optional = Null THEN default ELSE optional.value

\* minimum_size (lines 161-163).
MinimumSize(minimum_alignment) ==
  IF ValueOr(minimum_alignment, 0) > kMinAtlasSize
    THEN minimum_alignment.value
    ELSE kMinAtlasSize

OptimumAtlasSizeForFontGlyphPairs(pairs, glyph_positions, minimum_alignment) ==
  OptimumSizeLoop(pairs,
                  ISize(MinimumSize(minimum_alignment),
                        MinimumSize(minimum_alignment)),
                  glyph_positions, << >>)

\* ------------------------------------------------------- atlas and bitmap
\* A GlyphAtlas object: `id' is its identity, `positions' maps the pairs it
\* holds to their rectangles, `texture' is Null until SetTexture.  A
\* shared_ptr<GlyphAtlas> handed to the caller is AtlasRef(id) or Null.
AtlasRef(id) == [atlas |-> id]

EmptyPositions == << >>

MakeGlyphAtlas(id, type) ==
  [id |-> id, type |-> type, positions |-> EmptyPositions, texture |-> Null]

FindFontGlyphBounds(atlas, pair) ==
  IF pair \in DOMAIN atlas.positions THEN atlas.positions[pair] ELSE Null

AddTypefaceGlyphPosition(atlas, pair, rect) ==
  [atlas EXCEPT !.positions = (pair :> rect) @@ atlas.positions]

\* AddTypefaceGlyphPosition(pairs[i], glyph_positions[i]) for every i from
\* `i' on (lines 518-520 and 579-585).
RECURSIVE AddPositions(_, _, _, _)
AddPositions(atlas, pairs, glyph_positions, i) ==
  IF i > Len(glyph_positions) THEN atlas
  ELSE AddPositions(AddTypefaceGlyphPosition(atlas, pairs[i],
                                             glyph_positions[i]),
                    pairs, glyph_positions, i + 1)

\* What DrawGlyph leaves in a bitmap: the glyph of `pair' at `rect', as raw
\* coverage (sdf = FALSE) until the distance transform has run over it.
Drawn(pair, rect) == [pair |-> pair, rect |-> rect, sdf |-> FALSE]

PairsOf(pixels) == { d.pair : d \in pixels }

\* The pairs of new_pairs that the atlas has a position for, drawn there.
DrawnPairs(atlas, new_pairs) ==
  { Drawn(p, atlas.positions[p]) :
      p \in { q \in Range(new_pairs) : q \in DOMAIN atlas.positions } }

\* The outcomes of the collaborators during one call: none fails, the
\* raster surface cannot be made, the allocator returns no device buffer,
\* or the texture call (AsTexture, SetContents) fails.
EnvOutcomes == {"ok", "no_surface", "no_buffer", "texture_fails"}

\* UpdateAtlasBitmap on a non-null bitmap: FALSE without a surface; `drawn'
\* is what DrawGlyph was called for.
UpdateAtlasBitmap(atlas, bitmap, new_pairs, env) ==
  IF env = "no_surface" THEN [ok |-> FALSE, bitmap |-> bitmap, drawn |-> {}]
  ELSE [ok |-> TRUE,
        bitmap |-> [bitmap EXCEPT
                      !.pixels = @ \cup DrawnPairs(atlas, new_pairs)],
        drawn |-> PairsOf(DrawnPairs(atlas, new_pairs))]

\* CreateAtlasBitmap once the pixel storage is allocated.  The bitmap and
\* its device buffer carry the identity of the atlas they were made for.
CreateAtlasBitmap(atlas, atlas_size, env) ==
  IF env = "no_surface" THEN Null
  ELSE [id |-> atlas.id, size |-> atlas_size,
        color |-> IF atlas.type = ColorBitmap THEN "N32Premul" ELSE "A8",
        pixels |-> { Drawn(p, atlas.positions[p]) :
                       p \in DOMAIN atlas.positions }]

\* ConvertBitmapToSignedDistanceField as seen from the atlas: every glyph in
\* the bitmap is now a distance field.
ConvertBitmap(bitmap) ==
  [bitmap EXCEPT !.pixels = { [d EXCEPT !.sdf = TRUE] : d \in @ }]

\* Lines 600-604.
ConvertIfSignedDistanceField(type, bitmap) ==
  IF type = SignedDistanceField THEN ConvertBitmap(bitmap) ELSE bitmap

\* DeviceBuffer::AsTexture on the bitmap's device buffer: with shared
\* device buffer and texture memory the texture is a view of the buffer;
\* without, a texture is created and set_contents copies the bitmap into it.
AsTexture(bitmap, atlas_size, format, caps, env) ==
  IF env = "texture_fails" THEN Null
  ELSE [buffer |-> bitmap.id, size |-> atlas_size, format |-> format,
        label |-> "", copied |-> ~caps.shared,
        contents |-> IF caps.shared THEN {} ELSE bitmap.pixels]

\* UploadGlyphTextureAtlas once the row bytes are checked (lines 456-463).
UploadGlyphTextureAtlas(bitmap, atlas_size, format, caps, env) ==
  IF AsTexture(bitmap, atlas_size, format, caps, env) = Null THEN Null
  ELSE [AsTexture(bitmap, atlas_size, format, caps, env) EXCEPT
          !.label = "GlyphAtlas"]

\* UpdateGlyphTextureAtlas on a non-null texture: SetContents copies the
\* bitmap's pixels.
UpdateGlyphTextureAtlas(bitmap, texture, env) ==
  IF env = "texture_fails" THEN [ok |-> FALSE, texture |-> texture]
  ELSE [ok |-> TRUE,
        texture |-> [texture EXCEPT !.copied = TRUE,
                                    !.contents = bitmap.pixels]]

\* Lines 542-551.
PixelFormatOf(type) ==
  IF type = ColorBitmap THEN "kR8G8B8A8UNormInt" ELSE "kA8UNormInt"

\* ----------------------------------------------------- GlyphAtlasContext
\* As constructed: an empty alpha atlas of size (0, 0), no packer and no
\* bitmap.
InitialContext ==
  [atlas |-> MakeGlyphAtlas(1, AlphaBitmap), atlas_size |-> ISize(0, 0),
   rect_packer |-> Null, bitmap |-> Null]

UpdateGlyphAtlas(ctx, atlas, size) ==
  [ctx EXCEPT !.atlas = atlas, !.atlas_size = size]

UpdateRectPacker(ctx, rect_packer) == [ctx EXCEPT !.rect_packer = rect_packer]

UpdateBitmap(ctx, bitmap) == [ctx EXCEPT !.bitmap = bitmap]

\* GlyphAtlas::SetTexture on the atlas the context holds.
SetTexture(ctx, texture) == [ctx EXCEPT !.atlas.texture = texture]

\* ---------------------------------------------------------- the platform
Platforms ==
  { [shared |-> FALSE, min_bytes_per_row |-> 64],
    [shared |-> FALSE, min_bytes_per_row |-> 512],
    [shared |-> TRUE,  min_bytes_per_row |-> 64],
    [shared |-> TRUE,  min_bytes_per_row |-> 512] }

\* The render context was built on a valid Context; nothing clears is_valid_.
IsValid == TRUE

\* ------------------------------------------------------------------ state
VARIABLES
  atlas_context,  \* GlyphAtlasContext: atlas, atlas_size, rect_packer, bitmap
  capabilities,   \* the platform's Capabilities and allocator limits
  next_id,        \* identity of the next GlyphAtlas object made
  num_calls,      \* CreateGlyphAtlas calls so far
  crashed,        \* a call dereferenced a null pointer
  last,           \* what the last CreateGlyphAtlas call did and returned
  search,         \* one run of the size search, statement by statement
  decompress,     \* one call of ImageDecoderImpeller::DecompressTexture
  decoder,        \* an ImageDecoderImpeller, its task runners and requests
  sdf,            \* a bitmap run through ConvertBitmapToSignedDistanceField
  upload          \* one call of ImageDecoderImpeller::UploadTextureToPrivate

vars ==
  << atlas_context, capabilities, next_id, num_calls, crashed, last, search,
     decompress, decoder, sdf, upload >>

\* The state of the glyph atlas builder.
atlas_vars ==
  << atlas_context, capabilities, next_id, num_calls, crashed, last >>

\* -------------------------------------------------------- CreateGlyphAtlas
\* The outcome of a call: the context after it, the returned atlas (Null for
\* nullptr), whether it died on a null pointer, and a record of what it did:
\* the glyphs it found new, the sizes the size search tried, the objects it
\* created, the pairs it rasterized and the texture calls it made.
Outcome(ctx, ret, path, crash, new_glyphs, tried, created, drawn, calls) ==
  [ctx |-> ctx, ret |-> ret, path |-> path, crashed |-> crash,
   new_glyphs |-> new_glyphs, tried |-> tried, created |-> created,
   drawn |-> drawn, texture_calls |-> calls]

\* Step 6 of the append branch after SetContents (lines 535-539).
AppendTextureUpdated(ctx, new_glyphs, drawn, tex) ==
  IF ~tex.ok
    THEN Outcome(ctx, Null, "append", FALSE, new_glyphs, << >>, {}, drawn,
                 {"SetContents"})
    ELSE Outcome(SetTexture(ctx, tex.texture), AtlasRef(ctx.atlas.id),
                 "append", FALSE, new_glyphs, << >>, {}, drawn,
                 {"SetContents"})

\* Steps 5 and 6 of the append branch after UpdateAtlasBitmap
\* (lines 526-539).  UpdateGlyphTextureAtlas dereferences the texture.
AppendBitmapUpdated(ctx, new_glyphs, caps, env, upd) ==
  IF ~upd.ok
    THEN Outcome(ctx, Null, "append", FALSE, new_glyphs, << >>, {}, {}, {})
  ELSE IF caps.shared
    THEN Outcome(UpdateBitmap(ctx, upd.bitmap), AtlasRef(ctx.atlas.id),
                 "append", FALSE, new_glyphs, << >>, {}, upd.drawn, {})
  ELSE IF ctx.atlas.texture = Null
    THEN Outcome(UpdateBitmap(ctx, upd.bitmap), Null, "append", TRUE,
                 new_glyphs, << >>, {}, upd.drawn, {})
  ELSE AppendTextureUpdated(UpdateBitmap(ctx, upd.bitmap), new_glyphs,
                            upd.drawn,
                            UpdateGlyphTextureAtlas(upd.bitmap,
                                                    ctx.atlas.texture, env))

\* Step 5 of the append branch (lines 525-528).  UpdateAtlasBitmap
\* dereferences the bitmap.
AppendDraw(ctx, new_glyphs, caps, env) ==
  IF ctx.bitmap = Null
    THEN Outcome(ctx, Null, "append", TRUE, new_glyphs, << >>, {}, {}, {})
    ELSE AppendBitmapUpdated(ctx, new_glyphs, caps, env,
                             UpdateAtlasBitmap(ctx.atlas, ctx.bitmap,
                                               new_glyphs, env))

\* AppendToAtlas recording the new positions in an atlas emptied first.
AppendToClearedAtlas(ctx, new_glyphs, can, caps, env) ==
  AppendDraw([ctx EXCEPT
                !.atlas = AddPositions([@ EXCEPT !.positions = EmptyPositions],
                                       new_glyphs, can.positions, 1),
                !.rect_packer = can.packer],
             new_glyphs, caps, env)

\* The append branch (lines 511-540): step 4 records the new positions in
\* last_atlas; the context's packer holds the new rectangles.
AppendToAtlas(ctx, new_glyphs, can, caps, env) ==
  AppendDraw([ctx EXCEPT
                !.atlas = AddPositions(@, new_glyphs, can.positions, 1),
                !.rect_packer = can.packer],
             new_glyphs, caps, env)

\* Steps 8 and 9 of the rebuild after UploadGlyphTextureAtlas
\* (lines 605-617).
RebuildUploaded(ctx, new_glyphs, tried, caps, texture) ==
  IF texture = Null
    THEN Outcome(ctx, Null, "rebuild", FALSE, new_glyphs, tried,
                 {"atlas", "bitmap"}, PairsOf(ctx.bitmap.pixels),
                 {"AsTexture"})
    ELSE Outcome(SetTexture(ctx, texture), AtlasRef(ctx.atlas.id), "rebuild",
                 FALSE, new_glyphs, tried, {"atlas", "bitmap", "texture"},
                 PairsOf(ctx.bitmap.pixels),
                 IF caps.shared THEN {"AsTexture"}
                                ELSE {"AsTexture", "SetContents"})

\* Steps 7 and 8 of the rebuild after CreateAtlasBitmap (lines 592-607).
RebuildDrawn(ctx, type, new_glyphs, tried, caps, env, bitmap) ==
  IF bitmap = Null
    THEN Outcome(ctx, Null, "rebuild", FALSE, new_glyphs, tried, {"atlas"},
                 {}, {})
    ELSE RebuildUploaded(
           UpdateBitmap(ctx, ConvertIfSignedDistanceField(type, bitmap)),
           new_glyphs, tried, caps,
           UploadGlyphTextureAtlas(ConvertIfSignedDistanceField(type, bitmap),
                                   ctx.atlas_size, PixelFormatOf(type), caps,
                                   env))

\* Step 7 of the rebuild (lines 590-591).  allocPixelRef dereferences the
\* device buffer the allocator returned (line 652).
RebuildDraw(ctx, type, new_glyphs, tried, caps, env) ==
  IF env = "no_buffer"
    THEN Outcome(ctx, Null, "rebuild", TRUE, new_glyphs, tried, {"atlas"},
                 {}, {})
    ELSE RebuildDrawn(ctx, type, new_glyphs, tried, caps, env,
                      CreateAtlasBitmap(ctx.atlas, ctx.atlas_size, env))

\* OptimumAtlasSizeForFontGlyphPairs calls UpdateRectPacker when a size fits
\* (line 176).
PublishRectPacker(ctx, opt) ==
  IF opt.packer = Null THEN ctx ELSE UpdateRectPacker(ctx, opt.packer)

\* Steps 4 to 6 of the rebuild once the size search has answered
\* (lines 562-585).
RebuildSized(ctx, type, pairs, new_glyphs, caps, env, glyph_atlas, opt) ==
  IF IsEmpty(opt.size) \/ Len(opt.positions) # Len(pairs)
    THEN Outcome(UpdateGlyphAtlas(PublishRectPacker(ctx, opt), glyph_atlas,
                                  opt.size),
                 Null, "rebuild", FALSE, new_glyphs, opt.tried, {"atlas"},
                 {}, {})
    ELSE RebuildDraw(UpdateGlyphAtlas(PublishRectPacker(ctx, opt),
                                      AddPositions(glyph_atlas, pairs,
                                                   opt.positions, 1),
                                      opt.size),
                     type, new_glyphs, opt.tried, caps, env)

\* RebuildAtlas starting from the positions of the prior atlas instead of
\* an empty atlas.
RebuildAtlasKeepingPrior(ctx, type, pairs, new_glyphs, glyph_positions, caps, env, id) ==
  RebuildSized(ctx, type, pairs, new_glyphs, caps, env,
               [MakeGlyphAtlas(id, type) EXCEPT
                  !.positions = ctx.atlas.positions],
               OptimumAtlasSizeForFontGlyphPairs(
                 pairs, glyph_positions, ComputeMinimumAlignment(caps)))

\* The rebuild (lines 541-617); ctx.rect_packer already holds what a
\* rejected append left in it.
RebuildAtlas(ctx, type, pairs, new_glyphs, glyph_positions, caps, env, id) ==
  RebuildSized(ctx, type, pairs, new_glyphs, caps, env,
               MakeGlyphAtlas(id, type),
               OptimumAtlasSizeForFontGlyphPairs(
                 pairs, glyph_positions, ComputeMinimumAlignment(caps)))

\* NewGlyphs without the lookup in last_atlas: every pair counts as new.
NewGlyphsAll(last_atlas, font_glyph_pairs) == font_glyph_pairs

\* The pairs of the frame that last_atlas has no position for (lines 491-496).
NewGlyphs(last_atlas, font_glyph_pairs) ==
  SelectSeq(font_glyph_pairs,
            LAMBDA p : FindFontGlyphBounds(last_atlas, p) = Null)

\* FrameIsEmpty without the early return for an empty frame.
FrameIsEmptyNever(font_glyph_pairs) == FALSE

\* font_glyph_pairs.empty() (line 483).
FrameIsEmpty(font_glyph_pairs) == font_glyph_pairs = << >>

\* SameType without the comparison of types.
SameTypeAlways(last_atlas, type) == TRUE

\* last_atlas->GetType() == type (lines 497 and 507).
SameType(last_atlas, type) == last_atlas.type = type

\* The condition of step 3 (lines 507-510): CanAppendToExistingAtlas is
\* called only for an atlas of the requested type.
TryAppend(ctx, type, new_glyphs) ==
  IF SameType(ctx.atlas, type)
    THEN CanAppendToExistingAtlas(new_glyphs, << >>, ctx.atlas_size,
                                  ctx.rect_packer)
    ELSE [ok |-> FALSE, positions |-> << >>, packer |-> ctx.rect_packer]

\* Step 3 on (lines 506-617).
AppendOrRebuild(ctx, type, pairs, caps, env, id, new_glyphs, can) ==
  IF can.ok
    THEN AppendToAtlas(ctx, new_glyphs, can, caps, env)
    ELSE RebuildAtlas(UpdateRectPacker(ctx, can.packer), type, pairs,
                      new_glyphs, can.positions, caps, env, id)

\* Step 2 on (lines 491-617).
ReuseOrBuild(ctx, type, pairs, caps, env, id, new_glyphs) ==
  IF SameType(ctx.atlas, type) /\ Len(new_glyphs) = 0
    THEN Outcome(ctx, AtlasRef(ctx.atlas.id), "reuse", FALSE, new_glyphs,
                 << >>, {}, {}, {})
    ELSE AppendOrRebuild(ctx, type, pairs, caps, env, id, new_glyphs,
                         TryAppend(ctx, type, new_glyphs))

\* TextRenderContextSkia::CreateGlyphAtlas.  font_glyph_pairs is the set of
\* CollectUniqueFontGlyphPairs in its iteration order.
CreateGlyphAtlasOutcome(ctx, type, font_glyph_pairs, caps, env, id) ==
  IF ~IsValid
    THEN Outcome(ctx, Null, "invalid", FALSE, << >>, << >>, {}, {}, {})
  ELSE IF FrameIsEmpty(font_glyph_pairs)
    THEN Outcome(ctx, AtlasRef(ctx.atlas.id), "empty", FALSE, << >>, << >>,
                 {}, {}, {})
  ELSE ReuseOrBuild(ctx, type, font_glyph_pairs, caps, env, id,
                    NewGlyphs(ctx.atlas, font_glyph_pairs))

\* No size search is being stepped through.
SearchIdle == [phase |-> "idle"]

\* DecompressTexture has not been called.
NotDecompressed == [phase |-> "idle"]

\* UploadTextureToPrivate has not been called.
NotUploaded == [phase |-> "idle"]

\* No bitmap has been converted.
NoBitmap == [phase |-> "idle"]

\* The decode requests the decoder is given.
NumRequests == 2

Requests == 1 .. NumRequests

\* A descriptor the caller holds one reference to, not yet passed to Decode.
NewRequest ==
  [stage |-> "new", refs |-> 1, caller_ref |-> TRUE, freed |-> FALSE,
   read_freed |-> FALSE, target_size |-> [width |-> 0, height |-> 0],
   decompressed |-> FALSE, callbacks |-> 0, created |-> {}, log |-> << >>]

\* ImageDecoderImpeller::ImageDecoderImpeller (lines 79-93): the task that
\* fulfils the context promise is on the IO runner.
NewDecoder ==
  [promise |-> "unset", io_queue |-> << [kind |-> "promise", request |-> 0] >>,
   io_running |-> 0, ui_queue |-> << >>, ui_running |-> 0, crashed |-> FALSE,
   requests |-> [r \in Requests |-> NewRequest]]

NoCall ==
  [path |-> "none", type |-> AlphaBitmap, pairs |-> << >>,
   prior |-> InitialContext, ret |-> Null, new_glyphs |-> << >>,
   tried |-> << >>, created |-> {}, drawn |-> {}, texture_calls |-> {},
   appends |-> 0]

Init ==
  /\ atlas_context = InitialContext
  /\ capabilities \in Platforms
  /\ next_id = 2
  /\ num_calls = 0
  /\ crashed = FALSE
  /\ last = NoCall
  /\ search = SearchIdle
  /\ decompress = NotDecompressed
  /\ decoder = NewDecoder
  /\ sdf = NoBitmap
  /\ upload = NotUploaded

\* One call of CreateGlyphAtlas on the context; max_calls bounds the run.
\* last.appends counts the appends that succeeded in a row up to this call.
Call(type, font_glyph_pairs, env, max_calls) ==
  /\ ~crashed
  /\ num_calls < max_calls
  /\ \E out \in { CreateGlyphAtlasOutcome(atlas_context, type,
                                          font_glyph_pairs, capabilities,
                                          env, next_id) } :
       /\ atlas_context' = out.ctx
       /\ crashed' = out.crashed
       /\ next_id' = IF "atlas" \in out.created THEN next_id + 1
                     ELSE next_id
       /\ last' = [path |-> out.path, type |-> type,
                   pairs |-> font_glyph_pairs, prior |-> atlas_context,
                   ret |-> out.ret, new_glyphs |-> out.new_glyphs,
                   tried |-> out.tried, created |-> out.created,
                   drawn |-> out.drawn,
                   texture_calls |-> out.texture_calls,
                   appends |-> IF out.path = "append" /\ out.ret # Null
                                 THEN last.appends + 1 ELSE 0]
  /\ num_calls' = num_calls + 1
  /\ UNCHANGED << capabilities, search, decompress, decoder, sdf, upload >>

\* A call with any type, any frame and any collaborator outcome.
CreateGlyphAtlas ==
  \E type \in AtlasTypes, font_glyph_pairs \in Orders, env \in EnvOutcomes :
    Call(type, font_glyph_pairs, env, MaxCalls)

Next == CreateGlyphAtlas

Spec == Init /\ [][Next]_vars

\* A context used for alpha atlases only, on which no collaborator fails:
\* longer runs of calls.
CreateAlphaGlyphAtlas ==
  \E font_glyph_pairs \in AlphaOrders :
    Call(AlphaBitmap, font_glyph_pairs, "ok", MaxAlphaCalls)

NextAlpha == CreateAlphaGlyphAtlas

SpecAlpha == Init /\ [][NextAlpha]_vars

\* ------------------------------------------- the size search, step by step
\* OptimumAtlasSizeForFontGlyphPairs and the loop of PairsFitInAtlasOfSize
\* as a machine that takes one addRect per step, for frames too large to
\* pack in one evaluation: `count' pairs that all have the same glyph
\* bounds (half pixels) and font scale (halves).
UniformFrames ==
  { [count |-> n, bw |-> 16, bh |-> 16, scale |-> 2] :
      n \in {1, 625, 626, 1024} }

\* ISize::Ceil((pair.glyph.bounds * pair.font.GetMetrics().scale).size) for
\* the pairs of a uniform frame.
FrameGlyphSize(frame) ==
  [width  |-> CeilDiv(frame.bw * frame.scale, 4),
   height |-> CeilDiv(frame.bh * frame.scale, 4)]

\* The head of the do-while (lines 170-174): a fresh packer of the current
\* size; PairsFitInAtlasOfSize clears glyph_positions and starts at i = 0.
SearchAt(frame, minimum_size, current_size, tried) ==
  [phase |-> "packing", frame |-> frame, minimum_size |-> minimum_size,
   current_size |-> current_size,
   rect_packer |-> GrRectanizerFactory(current_size.width,
                                       current_size.height),
   glyph_positions |-> << >>, i |-> 0,
   tried |-> Append(tried, current_size)]

\* Lines 161-168: the search starts at (minimum_size, minimum_size).
BeginSearch ==
  /\ search.phase = "idle"
  /\ \E frame \in UniformFrames :
       search' = SearchAt(frame,
                          MinimumSize(ComputeMinimumAlignment(capabilities)),
                          ISize(MinimumSize(
                                  ComputeMinimumAlignment(capabilities)),
                                MinimumSize(
                                  ComputeMinimumAlignment(capabilities))),
                          << >>)
  /\ UNCHANGED << atlas_vars, decompress, decoder, sdf, upload >>

\* The size search has returned `result'; `published' is the packer it
\* handed to UpdateRectPacker, Null when it gave up.
SearchDone(result, published) ==
  [phase |-> "done", frame |-> search.frame,
   minimum_size |-> search.minimum_size,
   current_size |-> search.current_size, rect_packer |-> search.rect_packer,
   glyph_positions |-> search.glyph_positions, i |-> search.i,
   tried |-> search.tried, result |-> result, published |-> published]

\* The size search gives up (line 190) or goes round the do-while with the
\* next size (lines 178-189).
SearchGrow(next_size) ==
  IF WithinMaxAtlasSize(next_size)
    THEN SearchAt(search.frame, search.minimum_size, next_size, search.tried)
    ELSE SearchDone(ISize(0, 0), Null)

\* One iteration of the loop of PairsFitInAtlasOfSize (lines 89-106) with
\* the answer of addRect; a rejection returns pairs.size() - i to the size
\* search.
SearchPlaced(r) ==
  IF r.ok
    THEN [search EXCEPT
            !.rect_packer = r.packer,
            !.glyph_positions =
              Append(@, MakeXYWH(r.x, r.y,
                                 FrameGlyphSize(search.frame).width,
                                 FrameGlyphSize(search.frame).height)),
            !.i = @ + 1]
    ELSE SearchGrow(NextAtlasSize(search.current_size,
                                  search.frame.count - search.i,
                                  search.frame.count + 1))

PlaceGlyph ==
  /\ search.phase = "packing"
  /\ search.i < search.frame.count
  /\ search' = SearchPlaced(
                 AddRect(search.rect_packer,
                         Padded(FrameGlyphSize(search.frame).width),
                         Padded(FrameGlyphSize(search.frame).height)))
  /\ UNCHANGED << atlas_vars, decompress, decoder, sdf, upload >>

\* Every pair fitted: PairsFitInAtlasOfSize returns 0, the packer is
\* published and the current size returned (lines 175-177).
FinishSearch ==
  /\ search.phase = "packing"
  /\ search.i = search.frame.count
  /\ search' = SearchDone(search.current_size, search.rect_packer)
  /\ UNCHANGED << atlas_vars, decompress, decoder, sdf, upload >>

NextSearch == BeginSearch \/ PlaceGlyph \/ FinishSearch

SpecSearch == Init /\ [][NextSearch]_vars

\* ------------------------------------------------------ DecompressTexture
\* image_decoder_impeller.cc.  An SkImageInfo is a record of width, height,
\* color type, alpha type and color space; a color space is Null or carries
\* the area of its gamut triangle in 1/10000 (LoadGamut, CalculateArea).
kSrgbGamutArea == 982

SRGB == [name |-> "sRGB", area |-> 981]
DisplayP3 == [name |-> "DisplayP3", area |-> 1414]

ImageInfo(w, h, color_type, alpha_type, color_space) ==
  [width |-> w, height |-> h, color_type |-> color_type,
   alpha_type |-> alpha_type, color_space |-> color_space]

\* SkImageInfo(): what SkBitmap::setInfo leaves behind when it refuses.
EmptyInfo == ImageInfo(0, 0, "kUnknown", "kUnknown", Null)

Dimensions(info) == [width |-> info.width, height |-> info.height]

\* IsWideGamut (lines 66-76).
IsWideGamut(color_space) ==
  IF color_space = Null THEN FALSE ELSE color_space.area > kSrgbGamutArea

\* ChooseCompatibleColorType without the case of kRGBA_F32.
ChooseCompatibleColorTypeDefault(type) == "kRGBA_8888"

\* ChooseCompatibleColorType (lines 97-104).
ChooseCompatibleColorType(type) ==
  IF type = "kRGBA_F32" THEN "kRGBA_F16" ELSE "kRGBA_8888"

\* ChooseCompatibleAlphaType (lines 106-108).
ChooseCompatibleAlphaType(type) == type

\* impeller::skia_conversions::ToPixelFormat, for a build whose conversion
\* knows the color types in `formats'.
ToPixelFormat(color_type, formats) ==
  IF color_type \in formats THEN [value |-> color_type] ELSE Null

\* SkBitmap::setInfo: an info with a negative side or without an alpha type
\* is refused and the bitmap's info is reset.
SetInfo(info) ==
  IF info.width < 0 \/ info.height < 0 \/ info.alpha_type = "kUnknown"
    THEN EmptyInfo
    ELSE info

\* ImageDescriptor::get_scaled_dimensions: the smallest size the generator
\* can decode to, 1/d of the source for a d in descriptor.scales, that
\* still covers target_size; the source size when no such d exists.
Covers(descriptor, d, target_size) ==
  /\ d * target_size.width <= descriptor.info.width
  /\ d * target_size.height <= descriptor.info.height

ScaleDivisor(descriptor, target_size) ==
  Max(1, CHOOSE d \in descriptor.scales \cup {0} :
           /\ d # 0 => Covers(descriptor, d, target_size)
           /\ \A e \in descriptor.scales :
                Covers(descriptor, e, target_size) => e <= d)

GetScaledDimensions(descriptor, target_size) ==
  [width  |-> CeilDiv(descriptor.info.width,
                      ScaleDivisor(descriptor, target_size)),
   height |-> CeilDiv(descriptor.info.height,
                      ScaleDivisor(descriptor, target_size))]

\* Lines 122-125 with the target size left as it came.
ClampTargetSizeNone(target_size, max_texture_size) ==
  target_size

\* Lines 122-125.
ClampTargetSize(target_size, max_texture_size) ==
  [width  |-> Min(max_texture_size.width, target_size.width),
   height |-> Min(max_texture_size.height, target_size.height)]

\* Lines 127-133.
DecodeSize(descriptor, target_size) ==
  IF descriptor.compressed
    THEN GetScaledDimensions(descriptor, target_size)
    ELSE Dimensions(descriptor.info)

\* Lines 139-160: the image info the descriptor is decoded to.
DecodeImageInfo(base_image_info, decode_size, supports_wide_gamut) ==
  IF supports_wide_gamut /\ IsWideGamut(base_image_info.color_space)
    THEN ImageInfo(decode_size.width, decode_size.height,
                   IF ChooseCompatibleAlphaType(base_image_info.alpha_type)
                        = "kOpaque"
                     THEN "kBGR_101010x_XR" ELSE "kRGBA_F16",
                   ChooseCompatibleAlphaType(base_image_info.alpha_type),
                   SRGB)
    ELSE ImageInfo(decode_size.width, decode_size.height,
                   ChooseCompatibleColorType(base_image_info.color_type),
                   ChooseCompatibleAlphaType(base_image_info.alpha_type),
                   base_image_info.color_space)

\* What the collaborators of one call answer: Allocator::CreateBuffer for
\* the first and the second bitmap, ImageDescriptor::get_pixels and
\* SkPixmap::scalePixels.
DecompressEnvs ==
  [first_buffer : BOOLEAN, second_buffer : BOOLEAN, get_pixels : BOOLEAN,
   scale_pixels : BOOLEAN]

\* The outcome of DecompressTexture: `result' is Null for std::nullopt,
\* `buffers' are the CreateBuffer calls made (TRUE for one that returned a
\* buffer), `decoded' tells whether get_pixels or readPixels was called.
Decompressed(result, crash, buffers, decoded) ==
  [result |-> result, crashed |-> crash, buffers |-> buffers,
   decoded |-> decoded]

\* DecompressResult (lines 205-207 and 236-238).
DecompressResult(info, pixels) ==
  [device_buffer |-> TRUE, sk_bitmap |-> [info |-> info, pixels |-> pixels],
   image_info |-> info]

\* ImpellerAllocator::allocPixelRef (lines 444-472) for a bitmap of this
\* info: FALSE before any allocation for an info it refuses.
AllocRefused(info) ==
  info.color_type = "kUnknown" \/ info.width < 0 \/ info.height < 0

\* Section 2 with the decoded bitmap returned at the size it was decoded at.
ScaleDecodedKeepsSize(info, target_size, env, buffers) ==
  Decompressed(DecompressResult(info, "decoded"), FALSE, buffers, TRUE)

\* Section 2 (lines 214-238): the decoded bitmap is scaled into a second
\* bitmap of the target size.
ScaleDecoded(info, target_size, env, buffers) ==
  IF AllocRefused(SetInfo([info EXCEPT !.width = target_size.width,
                                       !.height = target_size.height]))
    THEN Decompressed(Null, FALSE, buffers, TRUE)
  ELSE IF ~env.second_buffer
    THEN Decompressed(Null, TRUE, Append(buffers, FALSE), TRUE)
  ELSE Decompressed(
         DecompressResult(
           SetInfo([info EXCEPT !.width = target_size.width,
                                !.height = target_size.height]),
           IF env.scale_pixels THEN "scaled" ELSE "unwritten"),
         FALSE, Append(buffers, TRUE), TRUE)

\* Lines 200-238, with the decoded bitmap in hand.
ReturnOrScale(info, target_size, env, buffers) ==
  IF Dimensions(info) = target_size
    THEN Decompressed(DecompressResult(info, "decoded"), FALSE, buffers,
                      TRUE)
    ELSE ScaleDecoded(info, target_size, env, buffers)

\* Section 1 (lines 169-198): allocate the bitmap and decode or convert
\* the descriptor's pixels into it.
DecodeInto(descriptor, info, target_size, env) ==
  IF AllocRefused(info)
    THEN Decompressed(Null, FALSE, << >>, FALSE)
  ELSE IF ~env.first_buffer
    THEN Decompressed(Null, TRUE, << FALSE >>, FALSE)
  ELSE IF descriptor.compressed /\ ~env.get_pixels
    THEN Decompressed(Null, FALSE, << TRUE >>, TRUE)
  ELSE ReturnOrScale(info, target_size, env, << TRUE >>)

\* Lines 162-171 with the pixel format looked at after the bitmap has been
\* given its buffer.
CheckPixelFormatAfterAlloc(descriptor, image_info, target_size, formats, env) ==
  IF ToPixelFormat(image_info.color_type, formats) = Null
    THEN Decompressed(Null, FALSE, << TRUE >>, FALSE)
    ELSE DecodeInto(descriptor, SetInfo(image_info), target_size, env)

\* Lines 162-171.
CheckPixelFormat(descriptor, image_info, target_size, formats, env) ==
  IF ToPixelFormat(image_info.color_type, formats) = Null
    THEN Decompressed(Null, FALSE, << >>, FALSE)
    ELSE DecodeInto(descriptor, SetInfo(image_info), target_size, env)

\* Lines 122-160, with the clamped target size.
DecompressTo(descriptor, target_size, supports_wide_gamut, formats, env) ==
  CheckPixelFormat(descriptor,
                   DecodeImageInfo(descriptor.info,
                                   DecodeSize(descriptor, target_size),
                                   supports_wide_gamut),
                   target_size, formats, env)

\* ImageDecoderImpeller::DecompressTexture (lines 110-239).
DecompressTexture(descriptor, target_size, max_texture_size, supports_wide_gamut, formats, env) ==
  IF descriptor = Null
    THEN Decompressed(Null, FALSE, << >>, FALSE)
    ELSE DecompressTo(descriptor,
                      ClampTargetSize(target_size, max_texture_size),
                      supports_wide_gamut, formats, env)

\* The descriptors, sizes and builds DecompressTexture is called with.  A
\* target side of -1 is what SkISize::Make makes of a uint32_t of 2^32 - 1.
SourceInfos ==
  { ImageInfo(sz[1], sz[2], ct, at, cs) :
      sz \in { <<8, 8>>, <<8, 4>> },
      ct \in {"kRGBA_F32", "kRGBA_F16", "kGray_8"},
      at \in {"kOpaque", "kPremul", "kUnknown"}, cs \in {Null, SRGB, DisplayP3} }

Descriptors ==
  {Null} \cup [info : SourceInfos, compressed : BOOLEAN,
               scales : { {1}, {1, 2, 4, 8} }]

TargetSizes ==
  { ISize(sz[1], sz[2]) :
      sz \in { <<-1, -1>>, <<0, 0>>, <<2, 1>>, <<4, 4>>, <<8, 4>>,
               <<8, 8>>, <<9, 9>> } }

MaxTextureSizes == { ISize(4, 4), ISize(8, 8) }

\* The color types ToPixelFormat knows: all that DecompressTexture can
\* choose, or all but the extended-range one.
PixelFormatTables ==
  { {"kRGBA_8888", "kRGBA_F16", "kBGR_101010x_XR"}, {"kRGBA_8888", "kRGBA_F16"} }

\* One call of DecompressTexture.
Decompress ==
  /\ decompress.phase = "idle"
  /\ \E descriptor \in Descriptors, target_size \in TargetSizes,
        max_texture_size \in MaxTextureSizes,
        supports_wide_gamut \in BOOLEAN, formats \in PixelFormatTables,
        env \in DecompressEnvs :
       \E out \in { DecompressTexture(descriptor, target_size,
                                      max_texture_size, supports_wide_gamut,
                                      formats, env) } :
         decompress' = [phase |-> "done", descriptor |-> descriptor,
                        target_size |-> target_size,
                        max_texture_size |-> max_texture_size,
                        supports_wide_gamut |-> supports_wide_gamut,
                        formats |-> formats, out |-> out]
  /\ UNCHANGED << atlas_vars, search, decoder, sdf, upload >>

NextDecompress == Decompress

SpecDecompress == Init /\ [][NextDecompress]_vars

\* --------------------------------------------- ImageDecoderImpeller::Decode
\* The threads of a decode: the workers of the concurrent runner, the IO
\* runner and the UI runner (each a FIFO queue run by one thread); the
\* caller of Decode is a thread of its own.
Logged(req, what, thread) ==
  [req EXCEPT !.log = Append(@, [what |-> what, thread |-> thread])]

\* A task of the request reads the descriptor.
ReadDescriptor(req) ==
  [req EXCEPT !.read_freed = @ \/ req.freed]

\* RefCountedThreadSafe::Release: the descriptor is destroyed when its last
\* reference goes.
Released(req) ==
  [req EXCEPT !.refs = @ - 1, !.freed = (req.refs = 1)]

\* GPU objects the task running on `thread' has created or submitted.
Creating(req, resources, thread) ==
  [req EXCEPT !.created =
     @ \cup { [resource |-> resources[i], thread |-> thread] :
                i \in DOMAIN resources }]

\* What `result(image)' does (lines 382-390): the UI runner is posted the
\* task that releases the descriptor and calls p_result.
PostResult(d, r, image, thread) ==
  [d EXCEPT !.ui_queue = Append(@, [request |-> r, image |-> image]),
            !.requests[r] = Logged(@, "result_posted", thread)]

\* The IO task of the constructor (lines 88-92); io_manager may be gone.
IoSetPromise ==
  /\ ~decoder.crashed
  /\ decoder.io_running = 0
  /\ decoder.io_queue # << >>
  /\ Head(decoder.io_queue).kind = "promise"
  /\ \E context \in {"context", "null"} :
       decoder' = [decoder EXCEPT !.promise = context,
                                  !.io_queue = Tail(@)]
  /\ UNCHANGED << atlas_vars, search, decompress, sdf, upload >>

\* The target sizes Decode is called with.
DecodeTargets == { ISize(8, 8), ISize(4, 4), ISize(-1, -1) }

\* Decode (lines 372-433) up to its return: one more reference to the
\* descriptor, context_.get() (which waits for the promise), the task
\* posted to the concurrent runner.
Decode ==
  /\ ~decoder.crashed
  /\ decoder.promise # "unset"
  /\ \E r \in Requests, target_size \in DecodeTargets :
       /\ decoder.requests[r].stage = "new"
       /\ decoder' =
            [decoder EXCEPT !.requests[r] =
               Logged(Logged([@ EXCEPT !.refs = @ + 1,
                                       !.target_size = target_size,
                                       !.stage = "posted"],
                             "add_ref", "caller"),
                      "posted", "caller")]
  /\ UNCHANGED << atlas_vars, search, decompress, sdf, upload >>

\* The caller lets go of its own reference once Decode has returned.
DropCallerRef ==
  /\ ~decoder.crashed
  /\ \E r \in Requests :
       /\ decoder.requests[r].stage # "new"
       /\ decoder.requests[r].caller_ref
       /\ decoder' = [decoder EXCEPT !.requests[r] =
                        Released([@ EXCEPT !.caller_ref = FALSE])]
  /\ UNCHANGED << atlas_vars, search, decompress, sdf, upload >>

\* Lines 398-406: a worker of the concurrent runner starts the task.
ConcurrentBegin ==
  /\ ~decoder.crashed
  /\ \E r \in Requests :
       /\ decoder.requests[r].stage = "posted"
       /\ decoder' =
            IF decoder.promise = "null"
              THEN PostResult([decoder EXCEPT !.requests[r].stage =
                                 "result_posted"],
                              r, "null", "concurrent")
              ELSE [decoder EXCEPT !.requests[r] =
                      Logged(ReadDescriptor([@ EXCEPT !.stage =
                                               "decompressing"]),
                             "decompress_begin", "concurrent")]
  /\ UNCHANGED << atlas_vars, search, decompress, sdf, upload >>

\* Lines 408-431 when DecompressTexture has no result, with an upload
\* posted all the same.
AfterDecompressAlwaysUpload(d, r, out) ==
  [d EXCEPT !.io_queue = Append(@, [kind |-> "upload", request |-> r]),
            !.requests[r] =
              Logged([@ EXCEPT !.stage = "upload_posted"],
                     "upload_posted", "concurrent")]

\* Lines 408-431: what the task does with the outcome of DecompressTexture.
AfterDecompress(d, r, out) ==
  IF out.crashed
    THEN [d EXCEPT !.crashed = TRUE, !.requests[r].stage = "crashed"]
  ELSE IF out.result = Null
    THEN PostResult([d EXCEPT !.requests[r].stage = "result_posted"],
                    r, "null", "concurrent")
  ELSE [d EXCEPT !.io_queue = Append(@, [kind |-> "upload", request |-> r]),
                 !.requests[r] =
                   Logged([@ EXCEPT !.stage = "upload_posted",
                                    !.decompressed = TRUE],
                          "upload_posted", "concurrent")]

\* The buffers a run of DecompressTexture made the allocator create.
BuffersOf(out) ==
  [i \in DOMAIN out.buffers |-> "device_buffer"]

\* The descriptors of the requests.
DecodeDescriptors ==
  { [info |-> ImageInfo(8, 8, "kRGBA_F32", at, Null), compressed |-> c,
     scales |-> {1, 2, 4, 8}] : at \in {"kPremul", "kUnknown"}, c \in BOOLEAN }

\* Lines 403-431: DecompressTexture runs on the worker, which then posts
\* either the result or the upload.
ConcurrentDecompress ==
  /\ ~decoder.crashed
  /\ \E r \in Requests, descriptor \in DecodeDescriptors,
        env \in DecompressEnvs :
       /\ decoder.requests[r].stage = "decompressing"
       /\ \E out \in { DecompressTexture(descriptor,
                                         decoder.requests[r].target_size,
                                         ISize(8, 8), FALSE,
                                         {"kRGBA_8888", "kRGBA_F16",
                                          "kBGR_101010x_XR"}, env) } :
            decoder' =
              AfterDecompress(
                [decoder EXCEPT !.requests[r] =
                   Logged(Creating(ReadDescriptor(@), BuffersOf(out),
                                   "concurrent"),
                          "decompress_end", "concurrent")],
                r, out)
  /\ UNCHANGED << atlas_vars, search, decompress, sdf, upload >>

\* The IO thread takes the upload task of a request off its queue.
IoUploadBegin ==
  /\ ~decoder.crashed
  /\ decoder.io_running = 0
  /\ decoder.io_queue # << >>
  /\ Head(decoder.io_queue).kind = "upload"
  /\ decoder' =
       [decoder EXCEPT
          !.io_queue = Tail(@),
          !.io_running = Head(decoder.io_queue).request,
          !.requests[Head(decoder.io_queue).request] =
            Logged([@ EXCEPT !.stage = "uploading"], "upload_begin", "io")]
  /\ UNCHANGED << atlas_vars, search, decompress, sdf, upload >>

\* UploadTextureToShared as the IO task sees it (line 424): the GPU objects
\* it creates up to the step that fails, in order; "none" fails nowhere.
\* UploadImage is what the task hands to `result'.
UploadSteps ==
  << "texture", "contents", "command_buffer", "blit_pass", "submit" >>

UploadCreated(failure) ==
  SelectSeq(UploadSteps,
            LAMBDA step :
              /\ step # "contents"
              /\ \A i \in DOMAIN UploadSteps :
                   UploadSteps[i] = failure =>
                     \E j \in 1 .. (i - 1) : UploadSteps[j] = step)

UploadImage(failure) ==
  IF failure = "none" THEN "image" ELSE "null"

\* Lines 415-424: the upload ends and the IO task calls result.
IoUploadEnd ==
  /\ ~decoder.crashed
  /\ decoder.io_running # 0
  /\ \E failure \in {"none"} \cup Range(UploadSteps) :
       decoder' =
         PostResult(
           [decoder EXCEPT
              !.io_running = 0,
              !.requests[decoder.io_running] =
                Logged(Creating([@ EXCEPT !.stage = "result_posted"],
                                UploadCreated(failure), "io"),
                       "upload_end", "io")],
           decoder.io_running, UploadImage(failure), "io")
  /\ UNCHANGED << atlas_vars, search, decompress, sdf, upload >>

\* Line 387: the UI task of a request starts and releases the descriptor.
UiRelease ==
  /\ ~decoder.crashed
  /\ decoder.ui_running = 0
  /\ decoder.ui_queue # << >>
  /\ decoder' =
       [decoder EXCEPT
          !.ui_queue = Tail(@),
          !.ui_running = Head(decoder.ui_queue).request,
          !.requests[Head(decoder.ui_queue).request] =
            Logged(Released([@ EXCEPT !.stage = "released"]),
                   "release", "ui")]
  /\ UNCHANGED << atlas_vars, search, decompress, sdf, upload >>

\* Line 388: the UI task calls p_result.
UiCallback ==
  /\ ~decoder.crashed
  /\ decoder.ui_running # 0
  /\ decoder' =
       [decoder EXCEPT
          !.ui_running = 0,
          !.requests[decoder.ui_running] =
            Logged([@ EXCEPT !.stage = "done", !.callbacks = @ + 1],
                   "callback", "ui")]
  /\ UNCHANGED << atlas_vars, search, decompress, sdf, upload >>

NextDecode ==
  \/ IoSetPromise
  \/ Decode
  \/ DropCallerRef
  \/ ConcurrentBegin
  \/ ConcurrentDecompress
  \/ IoUploadBegin
  \/ IoUploadEnd
  \/ UiRelease
  \/ UiCallback

SpecDecode == Init /\ [][NextDecode]_vars

\* ------------------------------------- ConvertBitmapToSignedDistanceField
\* text_render_context_skia.cc, lines 197-307.  A bitmap is a function from
\* the index y * width + x to a byte.  Every distance the code stores is
\* the square root of an integer (maxDist = hypot(width, height), 0, or the
\* hypot of two integer offsets), so the maps hold the squares and the
\* comparisons are made on them; the quantized bytes agree with the float
\* arithmetic of lines 295-299 for every squared distance below 400.
ToUint16(v) == v % 65536

Index(x, y, width) == y * width + x

\* image(_x, _y), line 212.
Image(pixels, i) == pixels[i] > 127

MaxDistSquared(width, height) == width * width + height * height

\* The rows or columns `for (v = 1; v < side - less; ++v)' visits.
Visited(side, less) == 1 .. (side - less - 1)

\* Lines 229-240, together with the initialization of lines 220-227: the
\* maps after the boundary pass.
IsBoundary(pixels, width, height, i) ==
  /\ (i % width) \in Visited(width, 1)
  /\ (i \div width) \in Visited(height, 1)
  /\ \/ Image(pixels, i - 1) # Image(pixels, i)
     \/ Image(pixels, i + 1) # Image(pixels, i)
     \/ Image(pixels, i - width) # Image(pixels, i)
     \/ Image(pixels, i + width) # Image(pixels, i)

BoundaryPass(pixels, width, height) ==
  [dist |-> [i \in DOMAIN pixels |->
               IF IsBoundary(pixels, width, height, i)
                 THEN 0 ELSE MaxDistSquared(width, height)],
   near |-> [i \in DOMAIN pixels |->
               IF IsBoundary(pixels, width, height, i)
                 THEN << i % width, i \div width >> ELSE << 0, 0 >>]]

\* distance(n) + distUnit < distance(c), on the squares a and b.
CloserUnit(a, b) ==
  b - a - 1 > 0 /\ (b - a - 1) * (b - a - 1) > 4 * a

\* distance(n) + distDiag < distance(c), on the squares a and b.
CloserDiag(a, b) ==
  b - a - 2 > 0 /\ (b - a - 2) * (b - a - 2) > 8 * a

\* hypot(x - nearestpt.x, y - nearestpt.y), squared.
HypotSquared(x, y, point) ==
  (x - point[1]) * (x - point[1]) + (y - point[2]) * (y - point[2])

\* One `if' of the dead-reckoning passes: cell c = (x, y) takes the
\* nearest point of its neighbour n when that brings it closer.
Relax(maps, width, c, n, diagonal) ==
  IF (IF diagonal THEN CloserDiag(maps.dist[n], maps.dist[c])
                  ELSE CloserUnit(maps.dist[n], maps.dist[c]))
    THEN [dist |-> [maps.dist EXCEPT ![c] =
                      HypotSquared(c % width, c \div width, maps.near[n])],
          near |-> [maps.near EXCEPT ![c] = maps.near[n]]]
    ELSE maps

\* Lines 245-260.
ForwardCell(maps, width, c) ==
  Relax(Relax(Relax(Relax(maps, width, c, c - width - 1, TRUE),
                    width, c, c - width, FALSE),
              width, c, c - width + 1, TRUE),
        width, c, c - 1, FALSE)

\* Lines 267-282.
BackwardCell(maps, width, c) ==
  Relax(Relax(Relax(Relax(maps, width, c, c + 1, FALSE),
                    width, c, c + width - 1, TRUE),
              width, c, c + width, FALSE),
        width, c, c + width + 1, TRUE)

\* The cells of `cols' columns and `rows' rows from (1, 1), row by row.
CellsFrom(cols, rows, width) ==
  [k \in 1 .. (cols * rows) |->
     Index(1 + ((k - 1) % cols), 1 + ((k - 1) \div cols), width)]

\* Lines 242-262: y = 1 .. height - 3 and x = 1 .. width - 3, ascending.
ForwardCells(width, height) ==
  CellsFrom(Max(0, width - 3), Max(0, height - 3), width)

\* Lines 264-284 for a bitmap of at least 2 by 2: y = height - 2 .. 1 and
\* x = width - 2 .. 1, descending.
BackwardCells(width, height) ==
  [k \in 1 .. ((width - 2) * (height - 2)) |->
     CellsFrom(width - 2, height - 2, width)
       [(width - 2) * (height - 2) + 1 - k]]

\* One sweep over `cells' from the k-th on; maps without a cell have
\* nothing to relax.
RECURSIVE Sweep(_, _, _, _, _)
Sweep(maps, width, cells, k, forward) ==
  IF DOMAIN maps.dist = {} \/ k > Len(cells)
    THEN maps
    ELSE Sweep(IF forward THEN ForwardCell(maps, width, cells[k])
                          ELSE BackwardCell(maps, width, cells[k]),
               width, cells, k + 1, forward)

\* Lines 265-266: `uint16_t y = height - 2' and `uint16_t x = width - 2'
\* wrap to 65535 for a side of 1.  The backward pass then runs (both loops
\* have an iteration) and its largest index, that of distance(x + 1, y + 1)
\* in the first iteration, is outside the maps.
BackwardOutOfRange(width, height) ==
  /\ ToUint16(width - 2) >= 1
  /\ ToUint16(height - 2) >= 1
  /\ Index(ToUint16(width - 2) + 1, ToUint16(height - 2) + 1, width)
       > width * height - 1

\* Lines 295-299 for a squared distance, inside (distance kept) or outside
\* (distance negated): floor(127.5 + d * 127.5 / 13.5) for the clamped d.
Quantize(squared, inside) ==
  IF 4 * squared >= 729 THEN (IF inside THEN 255 ELSE 0)
  ELSE IF squared = 0 THEN 127
  ELSE IF inside
    THEN CHOOSE q \in 128 .. 255 :
           /\ 81 * (2 * q - 255) * (2 * q - 255) <= 28900 * squared
           /\ 81 * (2 * q - 253) * (2 * q - 253) > 28900 * squared
    ELSE CHOOSE q \in 0 .. 127 :
           /\ 28900 * squared <= 81 * (255 - 2 * q) * (255 - 2 * q)
           /\ 28900 * squared > 81 * (253 - 2 * q) * (253 - 2 * q)

\* Lines 286-302.
FinalPass(pixels, maps) ==
  [i \in DOMAIN pixels |-> Quantize(maps.dist[i], Image(pixels, i))]

\* Lines 242-302 for a bitmap whose backward pass stays inside the maps.
DeadReckoning(pixels, width, height) ==
  FinalPass(pixels,
            Sweep(Sweep(BoundaryPass(pixels, width, height), width,
                        ForwardCells(width, height), 1, TRUE),
                  width,
                  IF width >= 2 /\ height >= 2
                    THEN BackwardCells(width, height) ELSE << >>,
                  1, FALSE))

\* ConvertBitmapToSignedDistanceField (an unset `pixels' is the bitmap
\* with no bytes): the pixels it leaves behind, and
\* whether the backward pass left the maps (undefined behaviour, after
\* which `pixels' is what a run whose stray reads changed nothing leaves).
ConvertBitmapToSignedDistanceField(pixels, width, height) ==
  IF DOMAIN pixels = {} \/ width = 0 \/ height = 0
    THEN [out_of_range |-> FALSE, pixels |-> pixels]
  ELSE IF BackwardOutOfRange(width, height)
    THEN [out_of_range |-> TRUE,
          pixels |-> FinalPass(pixels,
                               Sweep(BoundaryPass(pixels, width, height),
                                     width, ForwardCells(width, height), 1,
                                     TRUE))]
  ELSE [out_of_range |-> FALSE,
        pixels |-> DeadReckoning(pixels, width, height)]

\* The bitmaps converted: every bitmap of bytes 0 and 255 up to 3 by 3, the
\* uniform bitmaps of a few larger sizes, and the 4 by 4 checkerboard (rows
\* 0,255,0,255 and 255,0,255,0) and 4 by 4 bitmaps with one pixel on.
MaxSide == 3

Checkerboard == [i \in 0 .. 15 |-> IF ((i % 4) + (i \div 4)) % 2 = 0 THEN 0 ELSE 255]

OnePixel(on) == [i \in 0 .. 15 |-> IF i = on THEN 255 ELSE 0]

Uniform(size, byte) == [i \in 0 .. (size[1] * size[2] - 1) |-> byte]

SdfInputs ==
  UNION { { [width |-> size[1], height |-> size[2], pixels |-> pixels] :
              pixels \in [0 .. (size[1] * size[2] - 1) -> {0, 255}] } :
          size \in (1 .. MaxSide) \X (1 .. MaxSide) }
  \cup
  { [width |-> size[1], height |-> size[2], pixels |-> Uniform(size, byte)] :
      size \in ((1 .. MaxSide) \X (1 .. MaxSide))
                 \cup { <<4, 4>>, <<14, 2>>, <<3, 14>>, <<14, 1>> },
      byte \in {0, 127, 128, 255} }
  \cup
  { [width |-> 4, height |-> 4, pixels |-> pixels] :
      pixels \in {Checkerboard} \cup { OnePixel(on) : on \in 0 .. 15 } }
  \cup
  { [width |-> size[1], height |-> size[2], pixels |-> << >>] :
      size \in { <<0, 0>>, <<0, 2>>, <<2, 0>>, <<2, 2>> } }

\* The process after the call: it has crashed, or has the pixels.
Converted(phase, input, result, crash) ==
  [phase |-> phase, width |-> input.width, height |-> input.height,
   input |-> input.pixels, out_of_range |-> result.out_of_range,
   crashed |-> crash, pixels |-> result.pixels, again |-> << >>]

\* A bitmap is converted.
ConvertOnce ==
  /\ sdf.phase = "idle"
  /\ \E input \in SdfInputs :
       \E result \in { ConvertBitmapToSignedDistanceField(
                         input.pixels, input.width, input.height) } :
         \E crash \in { c \in BOOLEAN : c => result.out_of_range } :
           sdf' = Converted("once", input, result, crash)
  /\ UNCHANGED << atlas_vars, search, decompress, decoder, upload >>

\* The converted bitmap is converted once more.
ConvertAgain ==
  /\ sdf.phase = "once"
  /\ ~sdf.crashed
  /\ \E result \in { ConvertBitmapToSignedDistanceField(
                       sdf.pixels, sdf.width, sdf.height) } :
       \E crash \in { c \in BOOLEAN : c => result.out_of_range } :
         sdf' = [sdf EXCEPT !.phase = "twice", !.crashed = crash,
                            !.again = result.pixels]
  /\ UNCHANGED << atlas_vars, search, decompress, decoder, upload >>

NextSdf == ConvertOnce \/ ConvertAgain

SpecSdf == Init /\ [][NextSdf]_vars

\* ------------------------------------------------- UploadTextureToPrivate
\* ISize::MipCount: 1 for an empty size, else the larger of ceil(log2) of
\* the sides, and at least 1.
MipCount(size) ==
  IF IsEmpty(size) THEN 1
  ELSE Max(1, CHOOSE k \in 0 .. 16 :
                /\ 2 ^ k >= Max(size.width, size.height)
                /\ k > 0 => 2 ^ (k - 1) < Max(size.width, size.height))

\* Lines 256-261.
PrivateTextureDescriptor(format, size) ==
  [storage_mode |-> "kDevicePrivate", format |-> format, size |-> size,
   mip_count |-> MipCount(size), compression_type |-> "kLossy"]

\* What UploadTextureToPrivate did: the image it returned (Null for
\* nullptr), the descriptor it asked a texture for (Null when it did not),
\* the calls it made on the context, the command buffer and the blit pass,
\* in order, whether EncodeCommands encoded the blit pass and whether
\* SubmitCommands took the command buffer.
Uploaded(ret, descriptor, calls, encoded, submitted) ==
  [ret |-> ret, texture_descriptor |-> descriptor, calls |-> calls,
   encoded |-> encoded, submitted |-> submitted]

\* BlitCommands with GenerateMipmap for every size.
BlitCommandsAlwaysMips(size) ==
  << "AddCopy", "GenerateMipmap", "EncodeCommands" >>

\* Lines 286-291: AddCopy(buffer->AsBufferView(), dest_texture), then
\* GenerateMipmap for a size with more than one mip level, then
\* EncodeCommands.
BlitCommands(size) ==
  IF MipCount(size) > 1
    THEN << "AddCopy", "GenerateMipmap", "EncodeCommands" >>
    ELSE << "AddCopy", "EncodeCommands" >>

\* Lines 263-297; `failure' is the call that fails, "none" when none does.
\* What EncodeCommands returns is not looked at (line 291).
UploadToTexture(descriptor, failure) ==
  IF failure = "texture"
    THEN Uploaded(Null, descriptor, << "CreateTexture" >>, FALSE, FALSE)
  ELSE IF failure = "command_buffer"
    THEN Uploaded(Null, descriptor,
                  << "CreateTexture", "CreateCommandBuffer" >>, FALSE, FALSE)
  ELSE IF failure = "blit_pass"
    THEN Uploaded(Null, descriptor,
                  << "CreateTexture", "CreateCommandBuffer",
                     "CreateBlitPass" >>, FALSE, FALSE)
  ELSE Uploaded(IF failure = "submit" THEN Null
                                      ELSE [texture |-> descriptor],
                descriptor,
                << "CreateTexture", "CreateCommandBuffer", "CreateBlitPass" >>
                  \o BlitCommands(descriptor.size) \o << "SubmitCommands" >>,
                failure # "encode", failure # "submit")

\* ImageDecoderImpeller::UploadTextureToPrivate (lines 241-298); `context'
\* and `buffer' tell whether the pointers are set.
UploadTextureToPrivate(context, buffer, image_info, formats, failure) ==
  IF ~context \/ ~buffer
    THEN Uploaded(Null, Null, << >>, FALSE, FALSE)
  ELSE IF ToPixelFormat(image_info.color_type, formats) = Null
    THEN Uploaded(Null, Null, << >>, FALSE, FALSE)
  ELSE UploadToTexture(
         PrivateTextureDescriptor(
           ToPixelFormat(image_info.color_type, formats).value,
           Dimensions(image_info)),
         failure)

\* The image infos uploaded: sizes of one and of several mip levels.
UploadInfos ==
  { ImageInfo(sz[1], sz[2], ct, "kPremul", SRGB) :
      sz \in { <<0, 0>>, <<1, 1>>, <<2, 1>>, <<8, 4>>, <<300, 200>> },
      ct \in {"kRGBA_8888", "kBGR_101010x_XR", "kGray_8"} }

\* One call of UploadTextureToPrivate.
UploadPrivate ==
  /\ upload.phase = "idle"
  /\ \E context \in BOOLEAN, buffer \in BOOLEAN, image_info \in UploadInfos,
        formats \in PixelFormatTables,
        failure \in {"none", "texture", "command_buffer", "blit_pass",
                     "encode", "submit"} :
       upload' = [phase |-> "done", mode |-> "private",
                  context |-> context, buffer |-> buffer,
                  image_info |-> image_info, formats |-> formats,
                  failure |-> failure,
                  out |-> UploadTextureToPrivate(context, buffer, image_info,
                                                 formats, failure)]
  /\ UNCHANGED << atlas_vars, search, decompress, decoder, sdf >>

\* --------------------------------------------------- UploadTextureToShared
\* SharedTextureDescriptor with the mip levels of the size whatever
\* create_mips says.
SharedTextureDescriptorAlwaysMips(format, size, create_mips) ==
  [storage_mode |-> "kHostVisible", format |-> format, size |-> size,
   mip_count |-> MipCount(size), compression_type |-> "default"]

\* Lines 316-321; the compression type is left as constructed.
SharedTextureDescriptor(format, size, create_mips) ==
  [storage_mode |-> "kHostVisible", format |-> format, size |-> size,
   mip_count |-> IF create_mips THEN MipCount(size) ELSE 1,
   compression_type |-> "default"]

\* The calls of lines 344-365 when command buffer and blit pass are made.
MipmapCalls(failure) ==
  << "CreateCommandBuffer", "CreateBlitPass", "GenerateMipmap",
     "EncodeCommands", "SubmitCommands" >>
    \o (IF failure = "submit" THEN << >> ELSE << "WaitUntilScheduled" >>)

\* Lines 343-368, after SetContents.  What EncodeCommands returns is not
\* looked at (line 360).
GenerateMips(descriptor, create_mips, failure) ==
  IF ~(descriptor.mip_count > 1 /\ create_mips)
    THEN Uploaded([texture |-> descriptor], descriptor,
                  << "CreateTexture", "SetContents" >>, FALSE, FALSE)
  ELSE IF failure = "command_buffer"
    THEN Uploaded(Null, descriptor,
                  << "CreateTexture", "SetContents", "CreateCommandBuffer" >>,
                  FALSE, FALSE)
  ELSE IF failure = "blit_pass"
    THEN Uploaded(Null, descriptor,
                  << "CreateTexture", "SetContents", "CreateCommandBuffer",
                     "CreateBlitPass" >>, FALSE, FALSE)
  ELSE Uploaded(IF failure = "submit" THEN Null
                                      ELSE [texture |-> descriptor],
                descriptor,
                << "CreateTexture", "SetContents" >> \o MipmapCalls(failure),
                failure # "encode", failure # "submit")

\* Lines 323-368.
UploadToSharedTexture(descriptor, create_mips, failure) ==
  IF failure = "texture"
    THEN Uploaded(Null, descriptor, << "CreateTexture" >>, FALSE, FALSE)
  ELSE IF failure = "contents"
    THEN Uploaded(Null, descriptor, << "CreateTexture", "SetContents" >>,
                  FALSE, FALSE)
  ELSE GenerateMips(descriptor, create_mips, failure)

\* ImageDecoderImpeller::UploadTextureToShared (lines 300-369); `bitmap' is
\* Null or the info of the bitmap.
UploadTextureToShared(context, bitmap, create_mips, formats, failure) ==
  IF ~context \/ bitmap = Null
    THEN Uploaded(Null, Null, << >>, FALSE, FALSE)
  ELSE IF ToPixelFormat(bitmap.color_type, formats) = Null
    THEN Uploaded(Null, Null, << >>, FALSE, FALSE)
  ELSE UploadToSharedTexture(
         SharedTextureDescriptor(
           ToPixelFormat(bitmap.color_type, formats).value,
           Dimensions(bitmap), create_mips),
         create_mips, failure)

\* One call of UploadTextureToShared.
UploadShared ==
  /\ upload.phase = "idle"
  /\ \E context \in BOOLEAN, bitmap \in {Null} \cup UploadInfos,
        create_mips \in BOOLEAN, formats \in PixelFormatTables,
        failure \in {"none", "texture", "contents", "command_buffer",
                     "blit_pass", "encode", "submit"} :
       upload' = [phase |-> "done", mode |-> "shared", context |-> context,
                  bitmap |-> bitmap, create_mips |-> create_mips,
                  formats |-> formats, failure |-> failure,
                  out |-> UploadTextureToShared(context, bitmap, create_mips,
                                                formats, failure)]
  /\ UNCHANGED << atlas_vars, search, decompress, decoder, sdf >>

NextUpload == UploadPrivate \/ UploadShared

SpecUpload == Init /\ [][NextUpload]_vars

\* ================================================================= claims
\* The atlas the context holds, and what the last call returned.
Atlas == atlas_context.atlas
Positions == atlas_context.atlas.positions
Returned == last.path # "none" /\ ~crashed
PriorRef == AtlasRef(last.prior.atlas.id)

InsideAtlas(r, size) ==
  /\ r.x >= 0 /\ r.y >= 0
  /\ r.x + r.w <= size.width /\ r.y + r.h <= size.height

\* n is the ceiling of quarters / 4.
IsCeilOfQuarters(n, quarters) == 4 * n >= quarters /\ 4 * (n - 1) < quarters

\* C1: when a call on a non-empty frame returns an atlas, it is the atlas
\* the context holds, every pair of the frame has a position in it, the
\* position lies inside the atlas size, and its width and height are the
\* ceiling of the glyph bounds times the font scale.
C1_FramePairsPlaced ==
  (Returned /\ last.ret # Null /\ last.pairs # << >>) =>
    /\ last.ret = AtlasRef(Atlas.id)
    /\ \A p \in Range(last.pairs) :
         /\ p \in DOMAIN Positions
         /\ InsideAtlas(Positions[p], atlas_context.atlas_size)
         /\ IsCeilOfQuarters(Positions[p].w, Glyph(p).bw * Glyph(p).scale)
         /\ IsCeilOfQuarters(Positions[p].h, Glyph(p).bh * Glyph(p).scale)

\* An incremental append returned the atlas for a frame of two pairs.
C1_Witness ==
  /\ Returned /\ last.ret # Null
  /\ last.path = "append"
  /\ Len(last.pairs) >= 2

PadRect(r) == MakeXYWH(r.x, r.y, r.w + kPadding, r.h + kPadding)

Overlap(a, b) ==
  /\ a.x < b.x + b.w /\ b.x < a.x + a.w
  /\ a.y < b.y + b.h /\ b.y < a.y + a.h

\* C2: in every state, no two positions of the context's atlas overlap, also
\* when each is extended by the padding it was packed with.
C2_NoOverlap ==
  \A p, q \in DOMAIN Positions :
    p # q => ~Overlap(PadRect(Positions[p]), PadRect(Positions[q]))

\* An append added a second position to an atlas.
C2_Witness ==
  /\ last.path = "append" /\ ~crashed
  /\ Cardinality(DOMAIN Positions) >= 2

\* What sampling the atlas texture reads: the pixels SetContents copied into
\* it, or the pixels of the device buffer it is a view of.
TexturePixels ==
  IF Atlas.texture.copied THEN Atlas.texture.contents
  ELSE IF atlas_context.bitmap # Null
          /\ atlas_context.bitmap.id = Atlas.texture.buffer
         THEN atlas_context.bitmap.pixels
         ELSE {}

\* Every position of the context's atlas was rasterized, at its rectangle,
\* into the context's bitmap, which was made for this atlas.
BitmapMatchesAtlas ==
  /\ atlas_context.bitmap # Null
  /\ atlas_context.bitmap.id = Atlas.id
  /\ { [pair |-> d.pair, rect |-> d.rect] : d \in atlas_context.bitmap.pixels }
       = { [pair |-> p, rect |-> Positions[p]] : p \in DOMAIN Positions }

FullyBuilt ==
  /\ Atlas.texture # Null
  /\ BitmapMatchesAtlas
  /\ TexturePixels = atlas_context.bitmap.pixels

\* C3: every non-null atlas returned for a non-empty frame is fully built:
\* it has a texture, and the texture's pixels are those of the bitmap its
\* positions were rasterized into, also after earlier calls returned null.
C3_ReturnedAtlasFullyBuilt ==
  (Returned /\ last.ret # Null /\ last.pairs # << >>) => FullyBuilt

AllUnset ==
  /\ DOMAIN Positions = {}
  /\ atlas_context.atlas_size = ISize(0, 0)
  /\ atlas_context.rect_packer = Null
  /\ atlas_context.bitmap = Null

AllSameAtlas ==
  /\ atlas_context.rect_packer # Null
  /\ atlas_context.rect_packer.width = atlas_context.atlas_size.width
  /\ atlas_context.rect_packer.height = atlas_context.atlas_size.height
  /\ atlas_context.rect_packer.rects
       = { PadRect(Positions[p]) : p \in DOMAIN Positions }
  /\ BitmapMatchesAtlas
  /\ atlas_context.bitmap.size = atlas_context.atlas_size

\* C4: after every call, returned atlas or null, the context's atlas, size,
\* packer and bitmap are all unset or all describe the same atlas: the
\* packer has the recorded size and holds exactly the padded rectangles of
\* the positions, and the bitmap has the recorded size and holds the glyphs
\* of the atlas.
C4_ContextInSync ==
  Returned => (AllUnset \/ AllSameAtlas)

\* C5: a call with an empty frame returns the atlas object the context held
\* before the call and leaves the context (atlas, size, packer, bitmap) and
\* the atlas (positions, texture) as they were.
C5_EmptyFrameReturnsPrior ==
  (last.path # "none" /\ last.pairs = << >>) =>
    /\ ~crashed
    /\ last.ret = PriorRef
    /\ atlas_context = last.prior

\* An empty frame arrived, asking for another type, at a context that holds
\* a built atlas.
C5_Witness ==
  /\ last.path = "empty"
  /\ DOMAIN last.prior.atlas.positions # {}
  /\ last.prior.atlas.texture # Null
  /\ last.type # last.prior.atlas.type

AllPositioned ==
  Range(last.pairs) \subseteq DOMAIN last.prior.atlas.positions

\* C6: when the requested type is the prior atlas's type and every pair of
\* the frame has a position in the prior atlas, the call returns the prior
\* atlas object and changes nothing: no position, no rectangle in the
\* packer, no size tried, nothing created, nothing rasterized, no texture
\* call.
C6_ReuseChangesNothing ==
  (last.path # "none" /\ last.prior.atlas.type = last.type /\ AllPositioned) =>
    /\ ~crashed
    /\ last.ret = PriorRef
    /\ atlas_context = last.prior
    /\ last.tried = << >>
    /\ last.created = {}
    /\ last.drawn = {}
    /\ last.texture_calls = {}

\* A non-empty frame whose pairs the prior atlas of the same type holds.
C6_Witness ==
  /\ last.path = "reuse"
  /\ last.pairs # << >>
  /\ last.prior.atlas.texture # Null

\* C7 as stated: whenever the prior atlas's type differs from the requested
\* type, the returned atlas is never the prior atlas object, for every frame.
C7_FreshForEveryFrame ==
  (Returned /\ last.prior.atlas.type # last.type) => last.ret # PriorRef

\* C7 amended: when the prior atlas's type differs from the requested type
\* and the frame is not empty, the call makes a fresh atlas object, installs
\* it in the context, and returns it or null, never the prior atlas object,
\* however many pairs of the frame the prior atlas holds.
C7_FreshForNonEmptyFrame ==
  (Returned /\ last.prior.atlas.type # last.type /\ last.pairs # << >>) =>
    /\ last.path = "rebuild"
    /\ "atlas" \in last.created
    /\ Atlas.id > last.prior.atlas.id
    /\ Atlas.type = last.type
    /\ last.ret \in {Null, AtlasRef(Atlas.id)}
    /\ last.ret # PriorRef

\* A fresh atlas of another type was returned for a frame whose pairs the
\* prior atlas all holds.
C7_Witness ==
  /\ Returned /\ last.ret # Null
  /\ last.prior.atlas.type # last.type
  /\ last.pairs # << >>
  /\ AllPositioned

\* C8: after an append succeeds, every pair the atlas held before the call
\* is still in the atlas with the rectangle it had, also when the call
\* follows other appends to the same atlas.
C8_AppendKeepsRectangles ==
  (Returned /\ last.path = "append" /\ last.ret # Null) =>
    /\ Atlas.id = last.prior.atlas.id
    /\ \A p \in DOMAIN last.prior.atlas.positions :
         /\ p \in DOMAIN Positions
         /\ Positions[p] = last.prior.atlas.positions[p]

\* The second of two appends in a row succeeded: the atlas held two pairs
\* before it and holds three after.
C8_Witness ==
  /\ Returned /\ last.path = "append" /\ last.ret # Null
  /\ last.appends = 2
  /\ Cardinality(DOMAIN last.prior.atlas.positions) = 2
  /\ Cardinality(DOMAIN Positions) = 3

\* The context's packer, as it was before the call, accepts every new glyph
\* of the frame with the padding added.
PackerAcceptsNewGlyphs ==
  /\ last.prior.rect_packer # Null
  /\ CanAppendLoop(NewGlyphs(last.prior.atlas, last.pairs), 1, << >>,
                   last.prior.rect_packer).ok

\* C9: when the requested type is the prior atlas's type, the frame has new
\* glyphs and the context's packer accepts each of them padded, the call
\* takes the append path: it returns the prior atlas object, adds one
\* position per new glyph, rasterizes only the new glyphs into the existing
\* bitmap and creates no packer, bitmap or texture.  When the packer rejects
\* a new glyph, the call is a rebuild.
C9_AppendTaken ==
  (last.path # "none" /\ last.prior.atlas.type = last.type
     /\ NewGlyphs(last.prior.atlas, last.pairs) # << >>) =>
    IF PackerAcceptsNewGlyphs
      THEN /\ ~crashed
           /\ last.path = "append"
           /\ last.ret = PriorRef
           /\ Atlas.id = last.prior.atlas.id
           /\ DOMAIN Positions = DOMAIN last.prior.atlas.positions
                                   \cup Range(last.new_glyphs)
           /\ last.drawn = Range(last.new_glyphs)
           /\ atlas_context.bitmap.id = last.prior.bitmap.id
           /\ last.created = {}
           /\ last.tried = << >>
      ELSE last.path = "rebuild"

\* The size search of the last call reported (0, 0).
ReportedImpossible ==
  last.path = "rebuild" /\ atlas_context.atlas_size = ISize(0, 0)

\* C10: the size search reports (0, 0) only after it has tried 4096 x 4096
\* and the pairs did not fit there, and the call then returns null.
C10_ImpossibleOnlyPastMax ==
  ReportedImpossible =>
    /\ last.tried[Len(last.tried)] = ISize(kMaxAtlasSize, kMaxAtlasSize)
    /\ PairsFitInAtlasOfSize(
         last.pairs, ISize(kMaxAtlasSize, kMaxAtlasSize), << >>,
         GrRectanizerFactory(kMaxAtlasSize, kMaxAtlasSize)).remaining > 0
    /\ ~crashed
    /\ last.ret = Null

\* The search gave up after growing one side at a time: it tried a size
\* that is not square on its way to 4096 x 4096.
C10_Witness ==
  /\ ReportedImpossible
  /\ \E i \in DOMAIN last.tried : last.tried[i].width # last.tried[i].height

\* The size search has answered for the frame of 1,024 pairs of 8 x 8 at
\* scale 1 with a minimum side of 256.
SearchedThousand ==
  /\ search.phase = "done"
  /\ search.frame.count = 1024
  /\ FrameGlyphSize(search.frame) = ISize(8, 8)
  /\ search.minimum_size = kMinAtlasSize

\* C11 as stated: for 1,024 pairs of 8 x 8 and a minimum side of 256 the
\* size search fails at 256 x 256, grows once and succeeds with 512 x 512.
C11_GrowsTo512Square ==
  SearchedThousand =>
    /\ search.tried = << ISize(256, 256), ISize(512, 512) >>
    /\ search.result = ISize(512, 512)

\* C11 amended: the size search fails at 256 x 256 after 625 pairs, grows
\* once, the height only, and succeeds with 256 x 512, all 1,024 pairs
\* placed.
C11_GrowsTo256By512 ==
  SearchedThousand =>
    /\ search.tried = << ISize(256, 256), ISize(256, 512) >>
    /\ search.result = ISize(256, 512)
    /\ Len(search.glyph_positions) = 1024
    /\ search.published # Null

\* The size search answered for that frame after trying two sizes, the
\* first of which took 625 pairs.
C11_Witness ==
  /\ SearchedThousand
  /\ Len(search.tried) = 2
  /\ search.result # ISize(0, 0)

\* ------------------------------------------------------------ decode claims
Log(r) == decoder.requests[r].log

Happened(r, what) == \E i \in DOMAIN Log(r) : Log(r)[i].what = what

\* Every `b' in the log of r has an `a' before it.
HappensBefore(r, a, b) ==
  \A j \in DOMAIN Log(r) :
    Log(r)[j].what = b => \E i \in 1 .. (j - 1) : Log(r)[i].what = a

\* Every `what' in the log of r ran on `thread'.
RanOn(r, what, thread) ==
  \A i \in DOMAIN Log(r) : Log(r)[i].what = what => Log(r)[i].thread = thread

\* No task of request r is queued or running any more.
NoTaskLeft(r) == decoder.requests[r].stage \in {"done", "crashed"}

\* C12: for every decode request, whatever the interleaving and the outcome,
\* the result callback is called exactly once, and on the UI thread: never
\* more than once, never on another thread, and once when no task of the
\* request is left.
C12_CallbackExactlyOnce ==
  \A r \in Requests :
    /\ decoder.requests[r].callbacks <= 1
    /\ RanOn(r, "callback", "ui")
    /\ NoTaskLeft(r) => decoder.requests[r].callbacks = 1

\* C13: within one request the decompress step ends on the concurrent pool
\* before the upload starts on the IO thread, the upload ends before the
\* callback runs on the UI thread, and a request whose decompress had no
\* result never gets an upload task.
C13_DecodeUploadCallbackChain ==
  \A r \in Requests :
    /\ HappensBefore(r, "decompress_end", "upload_posted")
    /\ HappensBefore(r, "upload_posted", "upload_begin")
    /\ HappensBefore(r, "upload_begin", "upload_end")
    /\ Happened(r, "upload_posted") => HappensBefore(r, "upload_end", "callback")
    /\ RanOn(r, "decompress_end", "concurrent")
    /\ RanOn(r, "upload_begin", "io") /\ RanOn(r, "upload_end", "io")
    /\ RanOn(r, "callback", "ui")
    /\ (Happened(r, "decompress_end") /\ ~decoder.requests[r].decompressed) =>
         /\ ~Happened(r, "upload_posted")
         /\ \A i \in DOMAIN decoder.io_queue :
              decoder.io_queue[i].request # r

\* A request that went through decompress, upload and callback while the
\* decompress of another one had no result and got its callback as well.
C13_Witness ==
  \E r, q \in Requests :
    /\ Happened(r, "upload_end") /\ Happened(r, "callback")
    /\ Happened(q, "decompress_end") /\ ~decoder.requests[q].decompressed
    /\ Happened(q, "callback")

\* C14: Decode takes one reference before posting and gives it back on the
\* UI thread after the callback has run; in between the count is at least 1
\* even when the caller has dropped its reference, and no task reads a
\* freed descriptor.
C14_ReleasedAfterCallback ==
  \A r \in Requests :
    /\ HappensBefore(r, "add_ref", "posted")
    /\ HappensBefore(r, "callback", "release")
    /\ RanOn(r, "release", "ui")
    /\ (Happened(r, "add_ref") /\ ~Happened(r, "release")) =>
         decoder.requests[r].refs >= 1
    /\ ~decoder.requests[r].read_freed

\* C15: every GPU object of a request is created, and every command buffer
\* submitted, by a task on the IO thread.
C15_GpuWorkOnIoThread ==
  \A r \in Requests :
    \A c \in decoder.requests[r].created : c.thread = "io"

\* -------------------------------------------------------- decompress claims
DecompressReturned ==
  decompress.phase = "done" /\ decompress.out.result # Null

\* The returned bitmap and the returned image_info are both w by h.
ResultIs(w, h) ==
  /\ decompress.out.result.sk_bitmap.info.width = w
  /\ decompress.out.result.sk_bitmap.info.height = h
  /\ decompress.out.result.image_info.width = w
  /\ decompress.out.result.image_info.height = h

\* The color type DecompressTexture chooses for the descriptor of the call.
ChosenColorType ==
  DecodeImageInfo(decompress.descriptor.info,
                  Dimensions(decompress.descriptor.info),
                  decompress.supports_wide_gamut).color_type

\* C16: whenever DecompressTexture returns a result, its bitmap and its
\* image_info have the size min(target, max_texture_size), component by
\* component, for compressed and uncompressed descriptors, resampled or not.
C16_ResultHasClampedTargetSize ==
  DecompressReturned =>
    ResultIs(IF decompress.target_size.width
                  <= decompress.max_texture_size.width
               THEN decompress.target_size.width
               ELSE decompress.max_texture_size.width,
             IF decompress.target_size.height
                  <= decompress.max_texture_size.height
               THEN decompress.target_size.height
               ELSE decompress.max_texture_size.height)

\* A target larger than the maximum, reached by a resample.
C16_Witness ==
  /\ DecompressReturned
  /\ decompress.target_size.width > decompress.max_texture_size.width
  /\ decompress.out.result.sk_bitmap.pixels = "scaled"

\* C17: a call with target size (0, 0) that returns a result returns the
\* clamped size, min(0, max) in each component, which is within
\* max_texture_size.
C17_ZeroTargetWithinMax ==
  (DecompressReturned /\ decompress.target_size = ISize(0, 0)) =>
    /\ ResultIs(Min(0, decompress.max_texture_size.width),
                Min(0, decompress.max_texture_size.height))
    /\ decompress.out.result.sk_bitmap.info.width
         <= decompress.max_texture_size.width
    /\ decompress.out.result.sk_bitmap.info.height
         <= decompress.max_texture_size.height

C17_Witness ==
  /\ DecompressReturned
  /\ decompress.target_size = ISize(0, 0)
  /\ decompress.descriptor.info.width > decompress.max_texture_size.width

\* C18: when CreateBuffer gives no buffer for a bitmap, the call ends with
\* no result and the missing buffer is not dereferenced.
C18_MissingBufferGivesNoResult ==
  (/\ decompress.phase = "done"
   /\ \E i \in DOMAIN decompress.out.buffers : ~decompress.out.buffers[i]) =>
    /\ decompress.out.result = Null
    /\ ~decompress.out.crashed

\* C19: a call whose chosen color type has no pixel format, or whose
\* descriptor is null, returns no result, has created no buffer and has
\* decoded nothing.
C19_UnsupportedFormatAllocatesNothing ==
  (/\ decompress.phase = "done"
   /\ \/ decompress.descriptor = Null
      \/ ChosenColorType \notin decompress.formats) =>
    /\ decompress.out.result = Null
    /\ decompress.out.buffers = << >>
    /\ ~decompress.out.decoded
    /\ ~decompress.out.crashed

C19_Witness ==
  /\ decompress.phase = "done"
  /\ decompress.descriptor # Null
  /\ ChosenColorType = "kBGR_101010x_XR"
  /\ ChosenColorType \notin decompress.formats

\* --------------------------------------------------------------- SDF claims
AllInside(pixels) == \A i \in DOMAIN pixels : pixels[i] >= 128

AllOutside(pixels) == \A i \in DOMAIN pixels : pixels[i] < 128

\* C20: a bitmap of width and height at least 1 whose pixels are all >= 128
\* or all < 128 is converted to the uniform bitmap of the extreme byte, 255
\* for all inside and 0 for all outside, and converting that once more
\* leaves it as it is.
C20_UniformGivesExtreme ==
  (/\ sdf.phase # "idle"
   /\ sdf.width >= 1 /\ sdf.height >= 1 /\ DOMAIN sdf.input # {}
   /\ AllInside(sdf.input) \/ AllOutside(sdf.input)) =>
    /\ ~sdf.crashed
    /\ ~sdf.out_of_range
    /\ \A i \in DOMAIN sdf.pixels :
         sdf.pixels[i] = IF AllInside(sdf.input) THEN 255 ELSE 0
    /\ sdf.phase = "twice" => sdf.again = sdf.pixels

\* C21: the 4x4 checkerboard is converted to a bitmap all of whose 16
\* pixels, those of the border included, are within 112 .. 144.
C21_CheckerboardNearMidpoint ==
  (sdf.phase # "idle" /\ sdf.input = Checkerboard) =>
    /\ ~sdf.crashed
    /\ \A i \in DOMAIN sdf.pixels : sdf.pixels[i] \in 112 .. 144

\* C22: no conversion touches an entry outside the maps, whatever the
\* width and height, and a conversion with width 0, height 0 or no buffer
\* leaves everything as it is.
C22_StaysInsideTheMaps ==
  sdf.phase # "idle" =>
    /\ ~sdf.out_of_range
    /\ ~sdf.crashed
    /\ (sdf.width = 0 \/ sdf.height = 0 \/ DOMAIN sdf.input = {}) =>
         sdf.pixels = sdf.input

\* The pixels with y in 1 .. height - 2 and x in 1 .. width - 2.
Interior(width, height) ==
  { Index(x, y, width) : x \in 1 .. (width - 2), y \in 1 .. (height - 2) }

\* C27: the forward pass visits every interior pixel, y in 1 .. H-2 and x
\* in 1 .. W-2, the same pixels as the boundary pass and the backward pass.
C27_ForwardVisitsInterior ==
  (sdf.phase # "idle" /\ DOMAIN sdf.input # {} /\ ~sdf.out_of_range) =>
    /\ Range(ForwardCells(sdf.width, sdf.height))
         = Interior(sdf.width, sdf.height)
    /\ (sdf.width >= 2 /\ sdf.height >= 2) =>
         Range(BackwardCells(sdf.width, sdf.height))
           = Interior(sdf.width, sdf.height)
    /\ \A i \in DOMAIN sdf.input :
         IsBoundary(sdf.input, sdf.width, sdf.height, i) =>
           i \in Interior(sdf.width, sdf.height)

\* C23: in an atlas of type SignedDistanceField that a call returned, after
\* any rebuilds and appends, every glyph the texture exposes has been through
\* the distance transform since it was rasterized; none is raw coverage.
C23_ExposedGlyphsAreDistanceFields ==
  (Returned /\ last.ret # Null /\ Atlas.type = SignedDistanceField
     /\ Atlas.texture # Null) =>
    \A d \in TexturePixels : d.sdf

\* C24: the capability supports_shared_device_buffer_texture_memory alone
\* decides every upload, of a rebuild and of an append: with it the atlas
\* returned has a texture that is a view of the bitmap's device buffer and
\* set_contents was not called; without it the texture holds the bitmap's
\* pixels, copied by set_contents.
C24_SharedMemoryIsTheSwitch ==
  (Returned /\ last.ret # Null /\ last.path \in {"rebuild", "append"}) =>
    /\ Atlas.texture # Null
    /\ atlas_context.bitmap # Null
    /\ IF capabilities.shared
         THEN /\ "SetContents" \notin last.texture_calls
              /\ ~Atlas.texture.copied
              /\ Atlas.texture.buffer = atlas_context.bitmap.id
         ELSE /\ "SetContents" \in last.texture_calls
              /\ Atlas.texture.copied
              /\ Atlas.texture.contents = atlas_context.bitmap.pixels

\* The sides of a size lie within lo .. hi.
SidesWithin(size, lo, hi) ==
  /\ size.width >= lo /\ size.width <= hi
  /\ size.height >= lo /\ size.height <= hi

\* The size search of the last call started at (min, min) and, when the
\* call returned an atlas, ended at a size with sides in min .. 4096.
SearchRanFrom(min) ==
  /\ last.tried # << >>
  /\ last.tried[1] = ISize(min, min)
  /\ last.ret # Null => SidesWithin(atlas_context.atlas_size, min,
                                    kMaxAtlasSize)

RemainingAt(size) ==
  PairsFitInAtlasOfSize(last.pairs, size, << >>,
                        GrRectanizerFactory(size.width, size.height)).remaining

\* `next' is `size' with only its shorter side grown to the next power of
\* two, or with both sides grown.
GrowsShorterSide(size, next) ==
  {next.width, next.height}
    = {Max(size.width, size.height),
       NextPowerOfTwoSize(Min(size.width, size.height) + 1)}

GrowsBothSides(size, next) ==
  /\ next.width = NextPowerOfTwoSize(size.width + 1)
  /\ next.height = NextPowerOfTwoSize(size.height + 1)

\* C26: after a packing attempt in which `remaining' of `total' pairs did
\* not fit, the next size tried has only the shorter side grown when
\* remaining < ceil(total / 2), and both sides grown otherwise.
C26_GrowthRule ==
  last.path = "rebuild" =>
    \A k \in 1 .. (Len(last.tried) - 1) :
      /\ RemainingAt(last.tried[k]) \in 1 .. Len(last.pairs)
      /\ IF RemainingAt(last.tried[k]) < CeilDiv(Len(last.pairs), 2)
           THEN GrowsShorterSide(last.tried[k], last.tried[k + 1])
           ELSE GrowsBothSides(last.tried[k], last.tried[k + 1])

\* A size search over three pairs found one that did not fit, floor(3 / 2)
\* and less than ceil(3 / 2), and grew the shorter side only.
C26_Witness ==
  /\ last.path = "rebuild"
  /\ Len(last.pairs) = 3
  /\ Len(last.tried) >= 2
  /\ RemainingAt(last.tried[1]) = 1
  /\ GrowsShorterSide(last.tried[1], last.tried[2])
  /\ ~GrowsBothSides(last.tried[1], last.tried[2])

\* The source of the call: the image_info of its descriptor.
Source == decompress.descriptor.info

\* The call may use wide gamut and the source color space is wider than
\* sRGB.
SourceIsWide ==
  /\ decompress.supports_wide_gamut
  /\ Source.color_space # Null
  /\ Source.color_space.area > SRGB.area

\* C28: the color type of the result is, for a source wider than sRGB on a
\* decoder that supports wide gamut, kBGR_101010x_XR when the alpha type is
\* opaque and kRGBA_F16 otherwise, with the sRGB color space; in every other
\* case kRGBA_F16 for a kRGBA_F32 source and kRGBA_8888 for any other; the
\* alpha type of the source is kept in all cases.
C28_ColorTypeChoice ==
  DecompressReturned =>
    /\ decompress.out.result.image_info.alpha_type = Source.alpha_type
    /\ decompress.out.result.sk_bitmap.info.color_type
         = decompress.out.result.image_info.color_type
    /\ IF SourceIsWide
         THEN /\ decompress.out.result.image_info.color_type
                   = IF Source.alpha_type = "kOpaque"
                       THEN "kBGR_101010x_XR" ELSE "kRGBA_F16"
              /\ decompress.out.result.image_info.color_space = SRGB
         ELSE decompress.out.result.image_info.color_type
                = IF Source.color_type = "kRGBA_F32"
                    THEN "kRGBA_F16" ELSE "kRGBA_8888"

\* A Display P3 source that is not opaque came back as kRGBA_F16 in sRGB
\* from a decoder that supports wide gamut.
C28_Witness ==
  /\ DecompressReturned
  /\ SourceIsWide
  /\ Source.color_type = "kGray_8"
  /\ Source.alpha_type = "kPremul"
  /\ decompress.out.result.image_info.color_type = "kRGBA_F16"

\* C29: DecompressTexture never returns a bitmap of the target size whose
\* pixels were never written because scalePixels failed; what it returns
\* holds the decoded pixels, scaled or not.
C29_NoUnwrittenResult ==
  DecompressReturned =>
    decompress.out.result.sk_bitmap.pixels \in {"decoded", "scaled"}

\* The calls of a complete upload of an image of this size, in order.
PrivateUploadOrder(size) ==
  << "CreateTexture", "CreateCommandBuffer", "CreateBlitPass", "AddCopy" >>
    \o (IF MipCount(size) > 1 THEN << "GenerateMipmap" >> ELSE << >>)
    \o << "EncodeCommands", "SubmitCommands" >>

\* Context and buffer were there, the texture, the command buffer and the
\* blit pass were created and the submit succeeded.
PrivateUploadWentThrough ==
  /\ upload.context /\ upload.buffer
  /\ upload.failure \in {"none", "encode"}

\* C30: UploadTextureToPrivate makes its calls in the order create texture
\* (device private, mip_count = size.mip_count(), lossy), create command
\* buffer, create blit pass, copy, generate mips exactly when mip_count > 1,
\* encode, submit, stopping at the first that fails; it returns an image
\* only when context and buffer are present and texture, command buffer,
\* blit pass and submit succeeded, and in every other case it returns null
\* and no copy is submitted.
C30_PrivateUploadOrder ==
  (upload.phase = "done" /\ upload.mode = "private") =>
    /\ Len(upload.out.calls)
         <= Len(PrivateUploadOrder(Dimensions(upload.image_info)))
    /\ upload.out.calls
         = SubSeq(PrivateUploadOrder(Dimensions(upload.image_info)), 1,
                  Len(upload.out.calls))
    /\ upload.out.texture_descriptor # Null =>
         /\ upload.out.texture_descriptor.storage_mode = "kDevicePrivate"
         /\ upload.out.texture_descriptor.size = Dimensions(upload.image_info)
         /\ upload.out.texture_descriptor.mip_count
              = MipCount(Dimensions(upload.image_info))
         /\ upload.out.texture_descriptor.compression_type = "kLossy"
    /\ upload.out.ret # Null =>
         /\ PrivateUploadWentThrough
         /\ upload.out.calls
              = PrivateUploadOrder(Dimensions(upload.image_info))
         /\ upload.out.ret.texture = upload.out.texture_descriptor
    /\ ~PrivateUploadWentThrough =>
         upload.out.ret = Null /\ ~upload.out.submitted

\* An image of one mip level was uploaded and returned, without a
\* GenerateMipmap call.
C30_Witness ==
  /\ upload.phase = "done"
  /\ upload.mode = "private"
  /\ upload.out.ret # Null
  /\ MipCount(Dimensions(upload.image_info)) = 1
  /\ upload.out.calls
       = << "CreateTexture", "CreateCommandBuffer", "CreateBlitPass",
            "AddCopy", "EncodeCommands", "SubmitCommands" >>

SharedUploadDone == upload.phase = "done" /\ upload.mode = "shared"

\* The names of the calls the upload made.
UploadCalls == upload.out.calls

\* Mips were asked for and the size has more than one mip level.
MipsWanted ==
  upload.create_mips /\ MipCount(Dimensions(upload.bitmap)) > 1

\* C31: UploadTextureToShared asks for a host-visible texture with
\* mip_count = size.mip_count() if create_mips and 1 otherwise; set_contents
\* comes before any mip generation; an image is returned after, exactly
\* when mips are wanted and mip_count > 1, a blit pass with generate_mipmap
\* as its only command was submitted and waited for until scheduled; and
\* without mips no command buffer is created.
C31_SharedUploadMips ==
  SharedUploadDone =>
    /\ upload.out.texture_descriptor # Null =>
         /\ upload.out.texture_descriptor.storage_mode = "kHostVisible"
         /\ upload.out.texture_descriptor.size = Dimensions(upload.bitmap)
         /\ upload.out.texture_descriptor.mip_count
              = IF upload.create_mips
                  THEN MipCount(Dimensions(upload.bitmap)) ELSE 1
    /\ \A i \in DOMAIN UploadCalls :
         UploadCalls[i] = "GenerateMipmap" =>
           \E j \in 1 .. (i - 1) : UploadCalls[j] = "SetContents"
    /\ "AddCopy" \notin Range(UploadCalls)
    /\ "CreateCommandBuffer" \in Range(UploadCalls) => MipsWanted
    /\ "WaitUntilScheduled" \in Range(UploadCalls) => upload.out.submitted
    /\ upload.out.ret # Null =>
         UploadCalls
           = IF MipsWanted
               THEN << "CreateTexture", "SetContents", "CreateCommandBuffer",
                       "CreateBlitPass", "GenerateMipmap", "EncodeCommands",
                       "SubmitCommands", "WaitUntilScheduled" >>
               ELSE << "CreateTexture", "SetContents" >>

\* A bitmap of several mip levels was uploaded with mips and returned.
C31_Witness ==
  /\ SharedUploadDone
  /\ upload.out.ret # Null
  /\ MipsWanted
  /\ upload.out.texture_descriptor.mip_count = 3
  /\ "WaitUntilScheduled" \in Range(UploadCalls)

\* C32: an upload, to a private texture or to a shared texture with mips,
\* returns an image only if encoding the blit pass succeeded, and a command
\* buffer whose blit pass failed to encode is not submitted.
C32_NoImageWithoutEncoding ==
  (upload.phase = "done" /\ "EncodeCommands" \in Range(UploadCalls)) =>
    /\ upload.out.ret # Null => upload.out.encoded
    /\ ~upload.out.encoded => "SubmitCommands" \notin Range(UploadCalls)

\* The last call took the rebuild branch.
Rebuilt == last.path = "rebuild"

\* The pairs the prior atlas held that the frame of the last call lacks.
StalePairs == DOMAIN last.prior.atlas.positions \ Range(last.pairs)

====
